---- MODULE Spec2Model ----
(***************************************************************************)
(* win32ole-rs: late-bound invocation through IDispatch (oledata.rs,       *)
(* dispatch.rs), VARIANT construction (variant.rs), and the type-library   *)
(* inspectors for methods and parameters (olemethoddata.rs,                *)
(* oleparamdata.rs).  The platform (IDispatch, ITypeInfo) is the           *)
(* environment: its answers are drawn from small sets.                     *)
(***************************************************************************)
EXTENDS Integers, Sequences, FiniteSets, TLC

(***************************************************************************)
(* Bounds of the model.                                                    *)
(***************************************************************************)
\* longest argument list handed to call()
MaxArgs == 3
\* most functions a type library declares, over all its type records
MaxFuncs == 3
\* longest implemented-type table of the record searched
MaxImpl == 2
\* most parameters a method declares
MaxParams == 3
\* most type records of a library
MaxRecords == 5
\* most variables, or functions, of a type record
MaxMembers == 3
\* most OleTypeLibData values constructed in one run
MaxLibs == 3
\* deepest nesting of pointers and arrays in a type descriptor
MaxDepth == 2
\* most dimensions of a fixed array
MaxDims == 2
MaxFields == 2
MaxTypeInfos == 2
MaxOwn == 2
MaxCalls == 2
MaxDetails == 4
MaxWrapParams == 2

(***************************************************************************)
(* State.  Each component runs on its own variables; the others stay as    *)
(* they are.                                                               *)
(***************************************************************************)
\* dynamic dispatch invoker
VARIABLES
    dpc,        \* position of the current call: idle, marshalled, resolved, unpacked, returned, aborted
    api,        \* which implementation runs: "OleData" (oledata.rs) or "IDispatchExt" (dispatch.rs)
    op,         \* "get", "put" or "call"
    name,       \* member name given by the caller
    args,       \* the caller's arguments in declaration order (put: the one value)
    dp,         \* the DISPPARAMS block built by get/put/call
    flags,      \* DISPATCH_FLAGS handed to invoke
    ids,        \* Ok dispatch IDs of get_ids_of_names / the local id
    platform,   \* platform calls issued during this call, oldest first
    res,        \* status returned by IDispatch::Invoke
    result,     \* out slot: result VARIANT
    excep,      \* out slot: EXCEPINFO
    arg_err,    \* out slot: offending argument index
    ret         \* what the API call returned to its caller

\* VARIANT construction
VARIABLES
    vpc,        \* "idle", "built" (a VARIANT was produced) or "panicked"
    conv,       \* the From conversion applied
    vin,        \* its input
    variant     \* the VARIANT produced: tag, union member written, payload

\* method lookup by name and event detection
VARIABLES
    lib,        \* the type library: per type record its kind, functions and implemented types
    qname,      \* the name looked up
    mpc,        \* position: idle, sub_enter, sub_test, sub_body, sub_ret, impl_loop, done
    phase,      \* which search of from_typeinfo runs: "own" or "impl"
    i_impl,     \* from_typeinfo: index into the implemented-type table
    sub,        \* frame of ole_method_sub: owner, typeinfo, i, method
    method,     \* from_typeinfo: method
    type_attr,  \* attribute blocks held: by from_typeinfo (outer) and ole_method_sub (inner)
    mret,       \* what from_typeinfo returned
    evt         \* what is_event returned for the method found: "none" while not asked

\* parameter inspection
VARIABLES
    func,       \* the method's function as the platform describes it
    ppc,        \* "idle" or "done"
    pop,        \* "params" (OleMethodData::params) or "new" (OleParamData::new)
    pn,         \* the n given to OleParamData::new
    pret,       \* what the operation returned
    descs       \* FUNCDESC blocks acquired and not released

\* enumeration of the members of a library or of a type record
VARIABLES
    members,    \* what the platform holds: per member whether its descriptor and its name can be fetched
    epc,        \* "idle", "loop" (an enumeration is under way), "done"
    eop,        \* the enumeration: "ole_types", "variables", "Variables", "Methods"
    ei,         \* index of the next member
    produced,        \* the elements produced so far, in order
    eret,       \* how the enumeration ended: "none", "Ok", "Err"
    held        \* blocks acquired from the platform: per block how often acquired and released

\* find_coclass
VARIABLES
    fc          \* its frame: the interface wanted, j, the block typeattr2, whether the inner loop runs

\* rendering of a type descriptor (windows-tlb-bindgen)
VARIABLES
    rdesc,      \* the TYPEDESC given to type_to_string
    rflags,     \* the PARAMFLAGS given to it
    rpc,        \* "idle" or "done"
    rout        \* the string it returned

\* build (windows-tlb-bindgen)
VARIABLES
    typelib,        \* the library as the platform holds it: per index what GetTypeInfo and try_from give, and the record's fields
    bpc,            \* "idle", "loop" (the for over typeinfos), "done"
    typeinfos,      \* TypeInfos: its index
    build_result,   \* BuildResult: num_missing_types, num_types_not_found
    written,        \* what build wrote to out, in order
    bret            \* what build returned: "none", "Ok", or "Err: " and the call that failed

\* the implemented types of a type record (oletypedata.rs)
VARIABLES
    unnamed,    \* the records of the library for which OleTypeData::try_from fails
    icall,      \* the method of OleTypeData called: "none" before the call
    types       \* what it returned

\* the method lists of an object (OleData)
VARIABLES
    ole,        \* the object: what its IDispatch, its type record and its library answer
    ocall,      \* the method of OleData called: "none" before the call
    methods     \* what it returned

\* COM initialization of a thread (util/ole.rs) and the entry points that need it
VARIABLES
    nano,       \* G_RUNNING_NANO
    thread,     \* per thread: "running", "panicked", "exited"
    tls,        \* per thread its OLE_INITIALIZED slot: "uninit", "alive", "destroyed"
    asked,      \* per thread the number of calls of ole_initialized
    com         \* per thread the platform calls made on it, in order

\* the type of a parameter or variable as text (ole_typedesc2val, ole_ptrtype2val)
VARIABLES
    tform,        \* "trait" (ValueDescription of util/ole.rs) or "free" (the functions of util.rs)
    tself,        \* self.typedesc(): the TYPEDESC of the parameter or variable
    targ,         \* util.rs: the typedesc argument of the call under way
    tpc,          \* "idle", "ole_typedesc2val", "ole_ptrtype2val", "done"
    typedetails,  \* the Option<&mut Vec<String>>: whether Some, and the strings pushed
    tret          \* the string returned

\* the late-bound wrapper the emitter writes for one function of a dispinterface
VARIABLES
    wfunc,     \* the function: invkind, its declared parameters, whether it is inherited
    wpc,       \* "idle", "done"
    wrapper    \* what was written for it

\* visible() of a type library, a type and a variable
VARIABLES
    entity,    \* what is asked: its kind, its flags, whether GetTypeAttr succeeds
    vispc,     \* "idle", "done"
    vret       \* the bool returned

dispVars == <<dpc, api, op, name, args, dp, flags, ids, platform, res, result, excep, arg_err, ret>>
varVars == <<vpc, conv, vin, variant>>
methVars == <<lib, qname, mpc, phase, i_impl, sub, method, type_attr, mret, evt>>
parVars == <<func, ppc, pop, pn, pret, descs>>
enumVars == <<members, epc, eop, ei, produced, eret, held>>
coVars == <<fc>>
renderVars == <<rdesc, rflags, rpc, rout>>
buildVars == <<typelib, bpc, typeinfos, build_result, written, bret>>
implVars == <<unnamed, icall, types>>
oleVars == <<ole, ocall, methods>>
comVars == <<nano, thread, tls, asked, com>>
valVars == <<tform, tself, targ, tpc, typedetails, tret>>
wrapVars == <<wfunc, wpc, wrapper>>
visVars == <<entity, vispc, vret>>
vars == <<dispVars, varVars, methVars, parVars, enumVars, coVars, renderVars, buildVars, implVars, oleVars, comVars, valVars, wrapVars, visVars>>

\* what an action of one component leaves alone
dispRest == <<varVars, methVars, parVars, enumVars, coVars, renderVars, buildVars, implVars, oleVars, comVars, valVars, wrapVars, visVars>>
varRest == <<dispVars, methVars, parVars, enumVars, coVars, renderVars, buildVars, implVars, oleVars, comVars, valVars, wrapVars, visVars>>
methRest == <<dispVars, varVars, parVars, enumVars, coVars, renderVars, buildVars, implVars, oleVars, comVars, valVars, wrapVars, visVars>>
parRest == <<dispVars, varVars, methVars, enumVars, coVars, renderVars, buildVars, implVars, oleVars, comVars, valVars, wrapVars, visVars>>
enumRest == <<dispVars, varVars, methVars, parVars, coVars, renderVars, buildVars, implVars, oleVars, comVars, valVars, wrapVars, visVars>>
coRest == <<dispVars, varVars, methVars, parVars, members, renderVars, buildVars, implVars, oleVars, comVars, valVars, wrapVars, visVars>>
renderRest == <<dispVars, varVars, methVars, parVars, enumVars, coVars, buildVars, implVars, oleVars, comVars, valVars, wrapVars, visVars>>
buildRest == <<dispVars, varVars, methVars, parVars, enumVars, coVars, renderVars, implVars, oleVars, comVars, valVars, wrapVars, visVars>>
implRest == <<dispVars, varVars, methVars, parVars, enumVars, coVars, renderVars, buildVars, oleVars, comVars, valVars, wrapVars, visVars>>
oleRest == <<dispVars, varVars, methVars, parVars, enumVars, coVars, renderVars, buildVars, implVars, comVars, valVars, wrapVars, visVars>>
comRest == <<dispVars, varVars, methVars, parVars, enumVars, coVars, renderVars, buildVars, implVars, oleVars, valVars, wrapVars, visVars>>
valRest == <<dispVars, varVars, methVars, parVars, enumVars, coVars, renderVars, buildVars, implVars, oleVars, comVars, wrapVars, visVars>>
wrapRest == <<dispVars, varVars, methVars, parVars, enumVars, coVars, renderVars, buildVars, implVars, oleVars, comVars, valVars, visVars>>
visRest == <<dispVars, varVars, methVars, parVars, enumVars, coVars, renderVars, buildVars, implVars, oleVars, comVars, valVars, wrapVars>>

(***************************************************************************)
(* Platform constants used by the invoker.                                 *)
(***************************************************************************)
S_OK == 0
DISP_E_MEMBERNOTFOUND == -2147352573
DISP_E_PARAMNOTFOUND == -2147352572
DISP_E_TYPEMISMATCH == -2147352571
DISP_E_UNKNOWNNAME == -2147352570
DISP_E_EXCEPTION == -2147352567
DISP_E_BADPARAMCOUNT == -2147352562
DISPATCH_METHOD == 1
DISPATCH_PROPERTYGET == 2
DISPATCH_PROPERTYPUT == 4
DISPID_PROPERTYPUT == -3

(***************************************************************************)
(* Dynamic dispatch invoker: OleData::{get,put,call,invoke} and            *)
(* IDispatchExt::{get,put,call} with the free function invoke.             *)
(***************************************************************************)

\* the two implementations of the invoker
Apis == {"OleData", "IDispatchExt"}
\* argument values (distinct VARIANTs)
Variants == {"a", "b", "c"}
\* the members the live object knows, and a name it does not know
MemberNames == {"Visible", "Quit"}
CallerNames == MemberNames \cup {"Nope"}
\* what the platform reads when the name buffer it is handed was already freed
GarbageName == "?"
\* the object's name-to-ID table
DispIdOf(n) == IF n = "Visible" THEN 1 ELSE 2
\* a dispatch ID read from memory that no longer holds the resolved one
GarbageDispId == 0
\* exception-info blocks a callee may fill in
ExcepInfos == {"ex1", "ex2"}
\* statuses IDispatch::Invoke may return
InvokeStatuses == {S_OK, DISP_E_EXCEPTION, DISP_E_TYPEMISMATCH, DISP_E_PARAMNOTFOUND,
                   DISP_E_MEMBERNOTFOUND, DISP_E_BADPARAMCOUNT}

\* all sequences over S of length at most n
SeqsUpTo(S, n) == UNION {[1..k -> S] : k \in 0..n}

\* DISPPARAMS::default()
DefaultDispParams == [cArgs |-> 0, rgvarg |-> <<>>, cNamedArgs |-> 0, rgdispidNamedArgs |-> <<>>]
\* VARIANT::default(), EXCEPINFO::default()
EmptyVariant == "VT_EMPTY"
DefaultExcep == "none"
NoRet == [kind |-> "none"]

\* args.into_iter().rev().collect()
ReverseArgsMut(s) == s
ReverseArgs(s) == [i \in 1..Len(s) |-> s[Len(s) + 1 - i]]

\* the argument block of call()
CallParams(a) ==
    [DefaultDispParams EXCEPT !.cArgs = Len(a), !.rgvarg = ReverseArgs(a)]

\* the argument block of put()
PutParamsMut(v) ==
    [cArgs |-> 1, rgvarg |-> <<v>>, cNamedArgs |-> 0, rgdispidNamedArgs |-> <<>>]
PutParams(v) ==
    [cArgs |-> 1, rgvarg |-> <<v>>, cNamedArgs |-> 1,
     rgdispidNamedArgs |-> <<DISPID_PROPERTYPUT>>]

\* windows-rs turns an HRESULT into Err exactly when it is negative
Failed(hr) == hr < 0

\* the ? after GetIDsOfNames: go on to Invoke only on success
ResolvedMut(hr) == TRUE
Resolved(hr) == ~Failed(hr)

\* match res { ... } of invoke
UnpackMut(hr, r, e, ae) ==
    IF ~Failed(hr) THEN [kind |-> "Ok", value |-> r]
    ELSE IF hr = DISP_E_EXCEPTION THEN [kind |-> "Exception", excep |-> e]
    ELSE IF hr = DISP_E_TYPEMISMATCH
         THEN [kind |-> "IDispatchArgument", error_type |-> "ParameterNotFound", arg_err |-> ae]
    ELSE IF hr = DISP_E_PARAMNOTFOUND
         THEN [kind |-> "IDispatchArgument", error_type |-> "TypeMismatch", arg_err |-> ae]
    ELSE [kind |-> "Windows", code |-> hr]
Unpack(hr, r, e, ae) ==
    IF ~Failed(hr) THEN [kind |-> "Ok", value |-> r]
    ELSE IF hr = DISP_E_EXCEPTION THEN [kind |-> "Exception", excep |-> e]
    ELSE IF hr = DISP_E_TYPEMISMATCH
         THEN [kind |-> "IDispatchArgument", error_type |-> "TypeMismatch", arg_err |-> ae]
    ELSE IF hr = DISP_E_PARAMNOTFOUND
         THEN [kind |-> "IDispatchArgument", error_type |-> "ParameterNotFound", arg_err |-> ae]
    ELSE [kind |-> "Windows", code |-> hr]

DispInit ==
    /\ dpc = "idle"
    /\ api = "OleData"
    /\ op = "none"
    /\ name = ""
    /\ args = <<>>
    /\ dp = DefaultDispParams
    /\ flags = 0
    /\ ids = <<>>
    /\ platform = <<>>
    /\ res = S_OK
    /\ result = EmptyVariant
    /\ excep = DefaultExcep
    /\ arg_err = 0
    /\ ret = NoRet

\* get/put/call up to the call of invoke: the argument block and the flags
Marshal(a, o, n, as, d, f) ==
    /\ dpc' = "marshalled"
    /\ api' = a
    /\ op' = o
    /\ name' = n
    /\ args' = as
    /\ dp' = d
    /\ flags' = f
    /\ UNCHANGED <<ids, platform, res, result, excep, arg_err, ret>>
    /\ UNCHANGED dispRest

Get ==
    /\ dpc = "idle"
    /\ \E a \in Apis, n \in CallerNames :
        Marshal(a, "get", n, <<>>, DefaultDispParams, DISPATCH_PROPERTYGET)

Put ==
    /\ dpc = "idle"
    /\ \E a \in Apis, n \in CallerNames, v \in Variants :
        Marshal(a, "put", n, <<v>>, PutParams(v), DISPATCH_PROPERTYPUT)

Call ==
    /\ dpc = "idle"
    /\ \E a \in Apis, n \in CallerNames, as \in SeqsUpTo(Variants, MaxArgs) :
        Marshal(a, "call", n, as, CallParams(as), DISPATCH_METHOD)

\* invoke, first half: GetIDsOfNames.  Both implementations hand the platform
\* a pointer to a wide string that was dropped before the call, so the name
\* the platform reads is the caller's or garbage.
Resolve ==
    /\ dpc = "marshalled"
    /\ \E seen \in {name, GarbageName} :
         LET hr == IF seen \in MemberNames THEN S_OK ELSE DISP_E_UNKNOWNNAME
             call == [fn |-> "GetIDsOfNames", name |-> seen, hr |-> hr]
         IN /\ platform' = Append(platform, call)
            /\ IF Resolved(hr)
               THEN /\ ids' = <<IF seen \in MemberNames THEN DispIdOf(seen) ELSE GarbageDispId>>
                    /\ dpc' = "resolved"
                    /\ ret' = ret
               ELSE /\ ids' = ids
                    /\ dpc' = "returned"
                    /\ ret' = [kind |-> "Windows", code |-> hr]
    /\ UNCHANGED <<api, op, name, args, dp, flags, res, result, excep, arg_err>>
    /\ UNCHANGED dispRest

\* what the platform writes to the three out slots for a status
InvokeOutputs(hr) ==
    IF ~Failed(hr)
    THEN {[result |-> v, excep |-> DefaultExcep, arg_err |-> 0] : v \in Variants \cup {EmptyVariant}}
    ELSE IF hr = DISP_E_EXCEPTION
    THEN {[result |-> EmptyVariant, excep |-> e, arg_err |-> 0] : e \in ExcepInfos}
    ELSE IF hr \in {DISP_E_TYPEMISMATCH, DISP_E_PARAMNOTFOUND}
    THEN {[result |-> EmptyVariant, excep |-> DefaultExcep, arg_err |-> k] : k \in 0..MaxArgs}
    ELSE {[result |-> EmptyVariant, excep |-> DefaultExcep, arg_err |-> 0]}

\* invoke, second half: IDispatch::Invoke and the match on its status.
\* OleData reads ids[0] through a Vec built over a local of a frame that has
\* returned, so the ID it passes is the resolved one or garbage.
Invoke ==
    /\ dpc = "resolved"
    /\ \E hr \in InvokeStatuses, id \in {ids[1]} \cup (IF api = "OleData" THEN {GarbageDispId} ELSE {}) :
         \E out \in InvokeOutputs(hr) :
            /\ platform' = Append(platform,
                   [fn |-> "Invoke", dispid |-> id, flags |-> flags, dp |-> dp, hr |-> hr])
            /\ res' = hr
            /\ result' = out.result
            /\ excep' = out.excep
            /\ arg_err' = out.arg_err
            /\ ret' = Unpack(hr, out.result, out.excep, out.arg_err)
    /\ dpc' = "unpacked"
    /\ UNCHANGED <<api, op, name, args, dp, flags, ids>>
    /\ UNCHANGED dispRest

\* the end of invoke and of get/put/call: put discards the result VARIANT.
\* OleData drops `ids`, a Vec over stack memory, which frees a pointer the
\* allocator never returned: the call returns or the process is stopped.
Return ==
    /\ dpc = "unpacked"
    /\ \/ /\ dpc' = "returned"
          /\ ret' = IF op = "put" /\ ret.kind = "Ok" THEN [kind |-> "Ok", value |-> "unit"] ELSE ret
       \/ /\ api = "OleData"
          /\ dpc' = "aborted"
          /\ ret' = NoRet
    /\ UNCHANGED <<api, op, name, args, dp, flags, ids, platform, res, result, excep, arg_err>>
    /\ UNCHANGED dispRest

DispNext == Get \/ Put \/ Call \/ Resolve \/ Invoke \/ Return

(***************************************************************************)
(* VARIANT construction: VariantFactory and its From conversions.          *)
(***************************************************************************)

VT_EMPTY == 0
VT_NULL == 1
VT_I2 == 2
VT_I4 == 3
VT_R4 == 4
VT_R8 == 5
VT_CY == 6
VT_DATE == 7
VT_BSTR == 8
VT_DISPATCH == 9
VT_ERROR == 10
VT_BOOL == 11
VT_VARIANT == 12
VT_UNKNOWN == 13
VT_DECIMAL == 14
VT_I1 == 16
VT_UI1 == 17
VT_UI2 == 18
VT_UI4 == 19
VT_I8 == 20
VT_UI8 == 21
VT_INT == 22
VT_UINT == 23
VT_ARRAY == 8192
VT_BYREF == 16384

\* VT_BYREF.0 | x.0 for a type code x below the flag bits
ByRef(x) == VT_BYREF + x
VT_PUI1 == ByRef(VT_UI1)
VT_PI2 == ByRef(VT_I2)
VT_PI4 == ByRef(VT_I4)
VT_PI8 == ByRef(VT_I8)
VT_PUI8 == ByRef(VT_UI8)
VT_PR4 == ByRef(VT_R4)
VT_PR8 == ByRef(VT_R8)
VT_PBOOL == ByRef(VT_BOOL)
VT_PERROR == ByRef(VT_ERROR)
VT_PCY == ByRef(VT_CY)
VT_PDATE == ByRef(VT_DATE)
VT_PBSTR == ByRef(VT_BSTR)
VT_PUNKNOWN == ByRef(VT_UNKNOWN)
VT_PDISPATCH == ByRef(VT_DISPATCH)
VT_PARRAY == ByRef(VT_ARRAY)
VT_PDECIMAL == ByRef(VT_DECIMAL)
VT_PI1 == ByRef(VT_I1)
VT_PUI2 == ByRef(VT_UI2)
VT_PUI4 == ByRef(VT_UI4)
VT_PINT == ByRef(VT_INT)
VT_PUINT == ByRef(VT_UINT)

VARIANT_FALSE == 0
VARIANT_TRUE == -1

\* payloads: numbers, and addresses for the pointer conversions
Payloads == {0, 1, 2}
\* tags that accompany an f64 / a *mut f64
F64Tags == {VT_I4, VT_R8, VT_DATE}
PF64Tags == {VT_PR8, VT_PDATE, VT_R8}

\* conversions taking one payload, with the tag and the member each writes
PlainConversions ==
    { <<"i64", VT_I8, "llVal">>, <<"i32", VT_I4, "lVal">>, <<"u8", VT_UI1, "bVal">>,
      <<"i16", VT_I2, "iVal">>, <<"f32", VT_R4, "fltVal">>, <<"f64", VT_R8, "dblVal">>,
      <<"HRESULT", VT_ERROR, "scode">>, <<"CY", VT_CY, "cyVal">>,
      <<"&str", VT_BSTR, "bstrVal">>, <<"String", VT_BSTR, "bstrVal">>,
      <<"BSTR", VT_BSTR, "bstrVal">>, <<"IUnknown", VT_UNKNOWN, "punkVal">>,
      <<"IDispatch", VT_DISPATCH, "pdispVal">>, <<"*mut SAFEARRAY", VT_ARRAY, "parray">>,
      <<"*mut u8", VT_PUI1, "pbVal">>, <<"*mut i16", VT_PI2, "piVal">>,
      <<"*mut i32", VT_PI4, "plVal">>, <<"*mut i64", VT_PI8, "pllVal">>,
      <<"*mut f32", VT_PR4, "pfltVal">>, <<"*mut VARIANT_BOOL", VT_PBOOL, "pboolVal">>,
      <<"*mut BSTR", VT_PBSTR, "pbstrVal">>,
      <<"*mut Option<IUnknown>", VT_PUNKNOWN, "ppunkVal">>,
      <<"*mut Option<IDispatch>", VT_PDISPATCH, "ppdispVal">>,
      <<"*mut *mut SAFEARRAY", VT_PARRAY, "pparray">>, <<"*mut CY", VT_PCY, "pcyVal">>,
      <<"*mut VARIANT", VT_VARIANT, "pvarVal">>, <<"*mut c_void", VT_BYREF, "byref">>,
      <<"CHAR", VT_UI1, "cVal">>, <<"u16", VT_UI2, "uiVal">>, <<"u32", VT_UI4, "ulVal">>,
      <<"u64", VT_UI4, "ullVal">>, <<"*mut u16", VT_PUI2, "puiVal">>,
      <<"*mut u32", VT_PUI4, "pulVal">>, <<"*mut u64", VT_PUI8, "pullVal">> }

Factory(vt, field, value) == [vt |-> vt, field |-> field, value |-> value]
Panic == [vt |-> -1, field |-> "panic", value |-> 0]

\* impl From<bool> for VariantFactory
FromBool(b) == Factory(VT_BOOL, "boolVal", IF b THEN VARIANT_TRUE ELSE VARIANT_FALSE)

\* impl From<(VARENUM, f64)> for VariantFactory
FromTaggedF64(tag, v) ==
    IF tag = 7 THEN Factory(VT_DATE, "date", v)
    ELSE IF tag = 3 THEN Factory(VT_R8, "dblVal", v)
    ELSE Panic

\* impl From<(VARENUM, *mut f64)> for VariantFactory
FromTaggedPF64(tag, v) ==
    IF tag = 16391 THEN Factory(VT_PDATE, "pdate", v)
    ELSE IF tag = 16389 THEN Factory(VT_PR8, "pdblVal", v)
    ELSE Panic

\* impl From<*mut HRESULT> for VariantFactory: pscode is the address of a
\* temporary copy of the pointee, gone when the conversion returns
DanglingAddr == 255
FromPHresult(v) == Factory(VT_PERROR, "pscode", DanglingAddr)

\* impl From<VariantFactory> for VARIANT: the tag is truncated to u16
VariantFrom(f) == [vt |-> f.vt % 65536, wReserved1 |-> 0, wReserved2 |-> 0, wReserved3 |-> 0,
                   field |-> f.field, value |-> f.value]

NoVariant == [vt |-> VT_EMPTY, wReserved1 |-> 0, wReserved2 |-> 0, wReserved3 |-> 0,
              field |-> "none", value |-> 0]

VarInit ==
    /\ vpc = "idle"
    /\ conv = "none"
    /\ vin = <<>>
    /\ variant = NoVariant

\* one conversion into VariantFactory followed by VARIANT::from
Built(c, in, f) ==
    /\ conv' = c
    /\ vin' = in
    /\ IF f = Panic
       THEN vpc' = "panicked" /\ variant' = variant
       ELSE vpc' = "built" /\ variant' = VariantFrom(f)
    /\ UNCHANGED varRest

ConvertPlain ==
    /\ vpc = "idle"
    /\ \E c \in PlainConversions, v \in Payloads : Built(c[1], <<v>>, Factory(c[2], c[3], v))

ConvertBool ==
    /\ vpc = "idle"
    /\ \E b \in BOOLEAN : Built("bool", <<b>>, FromBool(b))

ConvertTaggedF64 ==
    /\ vpc = "idle"
    /\ \E t \in F64Tags, v \in Payloads : Built("(VARENUM, f64)", <<t, v>>, FromTaggedF64(t, v))

ConvertTaggedPF64 ==
    /\ vpc = "idle"
    /\ \E t \in PF64Tags, v \in Payloads :
        Built("(VARENUM, *mut f64)", <<t, v>>, FromTaggedPF64(t, v))

ConvertPHresult ==
    /\ vpc = "idle"
    /\ \E v \in Payloads : Built("*mut HRESULT", <<v>>, FromPHresult(v))

VarNext == ConvertPlain \/ ConvertBool \/ ConvertTaggedF64 \/ ConvertTaggedPF64 \/ ConvertPHresult

(***************************************************************************)
(* Method lookup by name (OleMethodData::from_typeinfo, ole_method_sub)    *)
(* and event detection (OleMethodData::is_event) over a type library.      *)
(* Type records are numbered; record 1 is the one searched, records 2 and  *)
(* 3 are what it may implement, and record 2 itself implements record 3.   *)
(***************************************************************************)
TKIND_DISPATCH == 4
TKIND_COCLASS == 5
IMPLTYPEFLAG_FSOURCE == 2

RecIds == {1, 2, 3}
TopRec == 1
FuncNames == {"A", "B"}
QueryNames == {"A"}

\* a function of a record: its name, whether GetFuncDesc yields its
\* descriptor and whether GetDocumentation yields its name
SoundFuncs == [name : FuncNames, desc : {TRUE}, doc : {TRUE}]
FaultyFuncs == {[name |-> "A", desc |-> FALSE, doc |-> TRUE],
                [name |-> "A", desc |-> TRUE, doc |-> FALSE]}

\* an entry of an implemented-type table: the record it refers to, its
\* IMPLTYPEFLAGS, whether GetImplTypeFlags and the two reference queries succeed
ImplEntry(t, fl, fok, rok) == [target |-> t, flags |-> fl, flagsOk |-> fok, ref |-> rok]
PlainImpls == {ImplEntry(t, 0, TRUE, TRUE) : t \in {2, 3}} \cup {ImplEntry(2, 0, TRUE, FALSE)}
FlaggedImpls == {ImplEntry(t, fl, TRUE, TRUE) : t \in {2, 3}, fl \in {0, IMPLTYPEFLAG_FSOURCE}}

Record(tk, fs, im) == [typekind |-> tk, attr |-> TRUE, funcs |-> fs, impls |-> im]

\* the library whose records have the functions f1, f2, f3
MkLib(tk, f1, f2, f3, im) ==
    (1 :> Record(tk, f1, im)) @@
    (2 :> Record(TKIND_DISPATCH, f2, <<ImplEntry(3, 0, TRUE, TRUE)>>)) @@
    (3 :> Record(TKIND_DISPATCH, f3, <<>>))

\* the libraries with functions from F (at most MaxFuncs in all), record 1 of
\* a kind in K and its implemented-type table over E
LibraryIs(F, K, E) ==
    \E f1 \in SeqsUpTo(F, MaxFuncs) :
      \E f2 \in SeqsUpTo(F, MaxFuncs - Len(f1)) :
        \E f3 \in SeqsUpTo(F, MaxFuncs - Len(f1) - Len(f2)) :
          \E tk \in K, im \in SeqsUpTo(E, MaxImpl) :
            lib = MkLib(tk, f1, f2, f3, im)

NoMethod == [owner |-> 0, typeinfo |-> 0, name |-> "", index |-> -1]
IsSome(m) == m.typeinfo # 0
NoSub == [owner |-> 0, typeinfo |-> 0, i |-> 0, method |-> NoMethod]
NoAttrs == [outer |-> 0, inner |-> 0]
NoMret == [kind |-> "none", method |-> NoMethod]

MethIdle ==
    /\ qname \in QueryNames
    /\ mpc = "idle"
    /\ phase = "own"
    /\ i_impl = 0
    /\ sub = NoSub
    /\ method = NoMethod
    /\ type_attr = NoAttrs
    /\ mret = NoMret
    /\ evt = "none"

\* ole_method_sub is entered for record t on behalf of owner o
EnterSub(o, t) == [owner |-> o, typeinfo |-> t, i |-> 0, method |-> NoMethod]

\* from_typeinfo: GetTypeAttr, then the search of the record's own functions
FromTypeinfo ==
    /\ mpc = "idle"
    /\ IF lib[TopRec].attr
       THEN /\ type_attr' = [type_attr EXCEPT !.outer = @ + 1]
            /\ sub' = EnterSub(0, TopRec)
            /\ mpc' = "sub_enter"
            /\ mret' = mret
       ELSE /\ mret' = [kind |-> "Err", method |-> NoMethod]
            /\ mpc' = "done"
            /\ UNCHANGED <<type_attr, sub>>
    /\ phase' = "own"
    /\ UNCHANGED <<lib, qname, i_impl, method, evt>>
    /\ UNCHANGED methRest

\* ole_method_sub: GetTypeAttr; its failure goes through both ? to the caller
SubEnter ==
    /\ mpc = "sub_enter"
    /\ IF lib[sub.typeinfo].attr
       THEN /\ type_attr' = [type_attr EXCEPT !.inner = @ + 1]
            /\ mpc' = "sub_test"
            /\ mret' = mret
       ELSE /\ mret' = [kind |-> "Err", method |-> NoMethod]
            /\ mpc' = "done"
            /\ type_attr' = type_attr
    /\ UNCHANGED <<lib, qname, phase, i_impl, sub, method, evt>>
    /\ UNCHANGED methRest

\* ole_method_sub: the head of the loop, if i == num_funcs { break }
SubTest ==
    /\ mpc = "sub_test"
    /\ IF sub.i = Len(lib[sub.typeinfo].funcs)
       THEN /\ type_attr' = [type_attr EXCEPT !.inner = @ - 1]
            /\ mpc' = "sub_ret"
       ELSE /\ type_attr' = type_attr
            /\ mpc' = "sub_body"
    /\ UNCHANGED <<lib, qname, phase, i_impl, sub, method, mret, evt>>
    /\ UNCHANGED methRest

\* the index the loop body goes on with after a function whose descriptor or
\* documentation could not be fetched: the continue leaves i as it is
AfterFailedFetch(i) == i

\* the method the loop body holds after a function whose name matches
OnMatch(old, new) == new

\* ole_method_sub: the body of the loop for function i
SubBody ==
    /\ mpc = "sub_body"
    /\ LET f == lib[sub.typeinfo].funcs[sub.i + 1]
           found == [owner |-> sub.owner, typeinfo |-> sub.typeinfo,
                     name |-> f.name, index |-> sub.i]
       IN IF ~f.desc \/ ~f.doc
          THEN sub' = [sub EXCEPT !.i = AfterFailedFetch(@)]
          ELSE sub' = [sub EXCEPT !.i = @ + 1,
                                  !.method = IF qname = f.name THEN OnMatch(@, found) ELSE @]
    /\ mpc' = "sub_test"
    /\ UNCHANGED <<lib, qname, phase, i_impl, method, type_attr, mret, evt>>
    /\ UNCHANGED methRest

\* from_typeinfo after a search returned: the own search ends the lookup when
\* it found the method (the attribute block is not released on that path)
SubReturn ==
    /\ mpc = "sub_ret"
    /\ method' = sub.method
    /\ sub' = NoSub
    /\ IF phase = "own"
       THEN IF IsSome(sub.method)
            THEN /\ mret' = [kind |-> "Ok", method |-> sub.method]
                 /\ mpc' = "done"
                 /\ i_impl' = i_impl
            ELSE /\ mpc' = "impl_loop"
                 /\ i_impl' = 0
                 /\ mret' = mret
       ELSE /\ mpc' = "impl_loop"
            /\ i_impl' = i_impl + 1
            /\ mret' = mret
    /\ UNCHANGED <<lib, qname, phase, type_attr, evt>>
    /\ UNCHANGED methRest

\* from_typeinfo: one turn of the loop over the implemented types
ImplLoop ==
    /\ mpc = "impl_loop"
    /\ LET impls == lib[TopRec].impls IN
       IF i_impl = Len(impls) \/ IsSome(method)
       THEN /\ type_attr' = [type_attr EXCEPT !.outer = @ - 1]
            /\ mret' = [kind |-> "Ok", method |-> method]
            /\ mpc' = "done"
            /\ UNCHANGED <<i_impl, sub, phase>>
       ELSE IF ~impls[i_impl + 1].ref
       THEN /\ i_impl' = i_impl + 1
            /\ UNCHANGED <<type_attr, mret, mpc, sub, phase>>
       ELSE /\ sub' = EnterSub(TopRec, impls[i_impl + 1].target)
            /\ phase' = "impl"
            /\ mpc' = "sub_enter"
            /\ UNCHANGED <<type_attr, mret, i_impl>>
    /\ UNCHANGED <<lib, qname, method, evt>>
    /\ UNCHANGED methRest

\* flags & IMPLTYPEFLAG_FSOURCE != IMPLTYPEFLAGS(0)
HasSourceMut(fl) == TRUE
HasSource(fl) == (fl \div IMPLTYPEFLAG_FSOURCE) % 2 = 1

\* is_event: some source-flagged implemented type of the owner coclass has,
\* at the method's index, a function of the method's name
IsEventOf(m) ==
    /\ m.owner # 0
    /\ lib[m.owner].attr
    /\ lib[m.owner].typekind = TKIND_COCLASS
    /\ \E j \in 1..Len(lib[m.owner].impls) :
          LET e == lib[m.owner].impls[j] IN
          /\ e.flagsOk
          /\ HasSource(e.flags)
          /\ e.ref
          /\ m.index < Len(lib[e.target].funcs)
          /\ lib[e.target].funcs[m.index + 1].desc
          /\ lib[e.target].funcs[m.index + 1].doc
          /\ m.name = lib[e.target].funcs[m.index + 1].name

\* is_event asked of the method the lookup returned
IsEvent ==
    /\ mpc = "done"
    /\ mret.kind = "Ok"
    /\ IsSome(mret.method)
    /\ evt = "none"
    /\ evt' = IF IsEventOf(mret.method) THEN "yes" ELSE "no"
    /\ UNCHANGED <<lib, qname, mpc, phase, i_impl, sub, method, type_attr, mret>>
    /\ UNCHANGED methRest

MethNext == FromTypeinfo \/ SubEnter \/ SubTest \/ SubBody \/ SubReturn \/ ImplLoop \/ IsEvent

\* a library at rest for the specifications of the other components
RestLib == MkLib(TKIND_DISPATCH, <<>>, <<>>, <<>>, <<>>)

(***************************************************************************)
(* Parameter inspection: OleMethodData::params with OleParamData::make,    *)
(* and OleParamData::new with oleparam_ole_param_from_index.               *)
(***************************************************************************)
MethodName == "M"
ParamNames == {"x", "y", "z"}

\* a function with the declared parameter names ps.  The platform's name list
\* is the method's own name followed by the parameter names; for a property
\* put it leaves out the last one (rhs = FALSE).
Function(ps, rhs, dok, nok) ==
    [cParams |-> Len(ps),
     names |-> <<MethodName>> \o (IF rhs \/ ps = <<>> THEN ps ELSE SubSeq(ps, 1, Len(ps) - 1)),
     descOk |-> dok,
     namesOk |-> nok]

RestFunc == Function(<<>>, TRUE, TRUE, TRUE)

ParIdle ==
    /\ ppc = "idle"
    /\ pop = "none"
    /\ pn = 0
    /\ pret = [kind |-> "none"]
    /\ descs = 0

\* ITypeInfo::GetNames(memid, names, cMaxNames, &len): the names it has, at most cMaxNames
GetNames(f, cMaxNames) ==
    SubSeq(f.names, 1, IF Len(f.names) < cMaxNames THEN Len(f.names) ELSE cMaxNames)

\* OleParamData::make
Make(method_index, index, nm) == [method_index |-> method_index, index |-> index, name |-> nm]

\* the loop of params: for i in 1..len, make(self, self.index, i - 1, rgbstrnames[i])
ParamListMut(got) == [k \in 1..Len(got) |-> Make(0, k - 1, got[k])]
ParamList(got) == [k \in 1..(Len(got) - 1) |-> Make(0, k - 1, got[k + 1])]

\* OleMethodData::params
Params ==
    /\ ppc = "idle"
    /\ pop' = "params"
    /\ ppc' = "done"
    /\ IF ~func.descOk
       THEN pret' = [kind |-> "Err", error |-> "GetFuncDesc"] /\ descs' = descs
       ELSE IF ~func.namesOk
       THEN pret' = [kind |-> "Err", error |-> "GetNames"] /\ descs' = descs
       ELSE LET got == GetNames(func, func.cParams + 1)
                params == IF func.cParams > 0 THEN ParamList(got) ELSE <<>>
            IN /\ pret' = [kind |-> "Ok", params |-> params]
               /\ descs' = descs + Len(params)
    /\ UNCHANGED <<func, pn>>
    /\ UNCHANGED parRest

\* Vec::with_capacity(c): room for c names and length 0.  GetNames writes
\* through the pointer it is given; the length of the vector stays what it was.
WithCapacity(c) == <<>>

\* the test that rejects a parameter number, on the name list without its first entry
RejectsIndex(param_index, bstrs) == param_index < 1 \/ Len(bstrs) <= param_index

\* OleParamData::new(method, n): oleparam_ole_param_from_index
ParamNew ==
    /\ ppc = "idle"
    /\ \E n \in 0..(MaxParams + 1) :
         /\ pn' = n
         /\ IF ~func.descOk
            THEN pret' = [kind |-> "Err", error |-> "GetFuncDesc"] /\ descs' = descs
            ELSE IF ~func.namesOk
            THEN pret' = [kind |-> "Err", error |-> "GetNames"] /\ descs' = descs
            ELSE LET bstrs == WithCapacity(func.cParams + 1) IN
                 IF bstrs = <<>>
                 THEN \* bstrs.remove(0) on a vector of length 0
                      pret' = [kind |-> "panic", error |-> "remove"] /\ descs' = descs + 1
                 ELSE LET rest == Tail(bstrs) IN
                      IF RejectsIndex(n, rest)
                      THEN pret' = [kind |-> "Err", error |-> "index"] /\ descs' = descs
                      ELSE /\ pret' = [kind |-> "Ok", param |-> Make(0, n - 1, rest[n + 1])]
                           /\ descs' = descs + 1
    /\ pop' = "new"
    /\ ppc' = "done"
    /\ UNCHANGED func
    /\ UNCHANGED parRest

ParNext == Params \/ ParamNew

(***************************************************************************)
(* Enumerations: the type records of a library (ole_types_from_typelib     *)
(* over OleClassNames and TypeInfos), the variables of a record            *)
(* (OleTypeData::variables, the Variables iterator) and its functions (the *)
(* Methods iterator).                                                      *)
(***************************************************************************)
\* a member: desc tells whether its descriptor (for a type record: its type
\* info) can be fetched, name what the fetch of its name gives
Member(d, n) == [desc |-> d, name |-> n]
RecordKinds == {Member(d, n) : d \in BOOLEAN, n \in {"ok", "err"}}

NoBlocks == <<>>

EnumIdle ==
    /\ epc = "idle"
    /\ eop = "none"
    /\ ei = 0
    /\ produced = <<>>
    /\ eret = "none"
    /\ held = NoBlocks

\* an element of a result list: Ok or Err, and the index of the member it is for
Element(k, i) == [kind |-> k, index |-> i]

\* OleTypeLibData::ole_types: the two iterators are made and zipped
OleTypes ==
    /\ epc = "idle"
    /\ epc' = "loop"
    /\ eop' = "ole_types"
    /\ UNCHANGED <<members, ei, produced, eret, held>>
    /\ UNCHANGED enumRest

\* what the loop of ole_types_from_typelib appends for one pair of the zip
TypesPushed(m, i) == IF m.name = "ok" /\ m.desc THEN <<Element("Ok", i)>> ELSE <<>>

\* ole_types_from_typelib: one turn of the loop over the zipped iterators,
\* both of which stop at GetTypeInfoCount
OleTypesNext ==
    /\ epc = "loop"
    /\ eop = "ole_types"
    /\ IF ei = Len(members)
       THEN /\ epc' = "done"
            /\ eret' = "Ok"
            /\ UNCHANGED <<ei, produced>>
       ELSE /\ produced' = produced \o TypesPushed(members[ei + 1], ei)
            /\ ei' = ei + 1
            /\ UNCHANGED <<epc, eret>>
    /\ UNCHANGED <<members, eop, held>>
    /\ UNCHANGED enumRest

TypesNext == OleTypes \/ OleTypesNext

\* the outcomes for a variable: GetVarDesc succeeds or not; GetNames fails
\* ("err"), gives no or an empty name ("empty"), gives a name that is not
\* valid UTF-16 ("unconvertible"), or gives a name ("ok")
VariableKinds == {Member(d, n) : d \in BOOLEAN, n \in {"ok", "err", "empty", "unconvertible"}}

\* a block handed out by the platform: a TYPEATTR ("attr"), VARDESC ("var")
\* or FUNCDESC ("func"), for which member, and how often it was released
Acquire(h, w, i) == Append(h, [what |-> w, index |-> i, released |-> 0])
Release(h, B) == [b \in DOMAIN h |-> IF b \in B THEN [h[b] EXCEPT !.released = @ + 1] ELSE h[b]]

\* an element that owns block b (0: none) until it is dropped
Owned(k, i, b) == [kind |-> k, index |-> i, block |-> b, alive |-> TRUE]
Alive(p) == {k \in DOMAIN p : p[k].alive}
\* the blocks released when the elements K of p are dropped
DropBlocks(p, K) == {p[k].block : k \in K} \ {0}
Dropped(p, K) == [k \in DOMAIN p |-> IF k \in K THEN [p[k] EXCEPT !.alive = FALSE] ELSE p[k]]

\* OleTypeData::variables: GetTypeAttr()?
CallVariables ==
    /\ epc = "idle"
    /\ eop' = "variables"
    /\ \E ok \in BOOLEAN :
         IF ok
         THEN held' = Acquire(held, "attr", 0) /\ epc' = "loop" /\ eret' = eret
         ELSE held' = held /\ epc' = "done" /\ eret' = "Err"
    /\ UNCHANGED <<members, ei, produced>>
    /\ UNCHANGED enumRest

\* what variables() does with a variable whose name was not fetched
\* (res.is_err() || len == 0 || rgbstrnames.is_empty()): continue
UnnamedVariable(h, b) == h

\* OleTypeData::variables: one turn of the loop; an early return drops the
\* vector and with it the elements pushed so far
VariablesLoop ==
    /\ epc = "loop"
    /\ eop = "variables"
    /\ IF ei = Len(members)
       THEN /\ epc' = "done"
            /\ eret' = "Ok"
            /\ UNCHANGED <<ei, produced, held>>
       ELSE LET m == members[ei + 1]
                h1 == Acquire(held, "var", ei)
                b1 == Len(h1)
                h2 == Acquire(h1, "var", ei)
                b2 == Len(h2)
            IN IF ~m.desc
               THEN /\ epc' = "done"
                    /\ eret' = "Err"
                    /\ held' = Release(held, DropBlocks(produced, Alive(produced)))
                    /\ produced' = Dropped(produced, Alive(produced))
                    /\ ei' = ei
               ELSE IF m.name \in {"err", "empty"}
               THEN /\ held' = UnnamedVariable(h1, b1)
                    /\ ei' = ei + 1
                    /\ UNCHANGED <<epc, eret, produced>>
               ELSE IF m.name = "unconvertible"
               THEN /\ epc' = "done"
                    /\ eret' = "Err"
                    /\ held' = Release(h1, DropBlocks(produced, Alive(produced)))
                    /\ produced' = Dropped(produced, Alive(produced))
                    /\ ei' = ei
               ELSE \* OleVariableData::new fetches the descriptor again and owns that one
                    /\ produced' = Append(produced, Owned("Ok", ei, b2))
                    /\ held' = Release(h2, {b1})
                    /\ ei' = ei + 1
                    /\ UNCHANGED <<epc, eret>>
    /\ UNCHANGED <<members, eop>>
    /\ UNCHANGED enumRest

\* Variables::new: count = attributes.cVars, index = 0
VariablesNew ==
    /\ epc = "idle"
    /\ epc' = "loop"
    /\ eop' = "Variables"
    /\ UNCHANGED <<members, ei, produced, eret, held>>
    /\ UNCHANGED enumRest

\* Variables::next
VariablesIterNext ==
    /\ epc = "loop"
    /\ eop = "Variables"
    /\ IF ei >= Len(members)
       THEN /\ epc' = "done"
            /\ eret' = "Ok"
            /\ UNCHANGED <<ei, produced, held>>
       ELSE LET m == members[ei + 1]
                h1 == Acquire(held, "var", ei)
                b1 == Len(h1)
            IN /\ ei' = ei + 1
               /\ UNCHANGED <<epc, eret>>
               /\ IF ~m.desc
                  THEN produced' = Append(produced, Owned("Err", ei, 0)) /\ held' = held
                  ELSE IF m.name = "err"
                  THEN produced' = Append(produced, Owned("Err", ei, 0)) /\ held' = Release(h1, {b1})
                  ELSE IF m.name = "unconvertible"
                  THEN produced' = Append(produced, Owned("Err", ei, 0)) /\ held' = h1
                  ELSE produced' = Append(produced, Owned("Ok", ei, b1)) /\ held' = h1
    /\ UNCHANGED <<members, eop>>
    /\ UNCHANGED enumRest

\* Drop for OleVariableData: the caller drops an element it was given; the
\* vector of variables() is in the caller's hands once Ok is returned
DropVariableData ==
    /\ eop \in {"variables", "Variables"}
    /\ eop = "variables" => eret = "Ok"
    /\ \E k \in Alive(produced) :
         /\ held' = Release(held, DropBlocks(produced, {k}))
         /\ produced' = Dropped(produced, {k})
    /\ UNCHANGED <<members, epc, eop, ei, eret>>
    /\ UNCHANGED enumRest

VarsNext == CallVariables \/ VariablesLoop \/ VariablesNew \/ VariablesIterNext \/ DropVariableData

\* the outcomes for a function: GetFuncDesc and GetDocumentation succeed or not
FunctionKinds == {Member(d, n) : d \in BOOLEAN, n \in {"ok", "err"}}

\* Methods::new: GetTypeAttr()?, count = cFuncs, index = 0
MethodsNew ==
    /\ epc = "idle"
    /\ eop' = "Methods"
    /\ \E ok \in BOOLEAN :
         IF ok
         THEN held' = Acquire(held, "attr", 0) /\ epc' = "loop" /\ eret' = eret
         ELSE held' = held /\ epc' = "done" /\ eret' = "Err"
    /\ UNCHANGED <<members, ei, produced>>
    /\ UNCHANGED enumRest

\* Methods::next for an index below count
MethodsIterNext ==
    /\ epc = "loop"
    /\ eop = "Methods"
    /\ ei # Len(members)
    /\ LET m == members[ei + 1]
           h1 == Acquire(held, "func", ei)
           b1 == Len(h1)
       IN IF ~m.desc
          THEN produced' = Append(produced, Owned("Err", ei, 0)) /\ held' = held
          ELSE IF m.name = "err"
          THEN produced' = Append(produced, Owned("Err", ei, 0)) /\ held' = Release(h1, {b1})
          ELSE produced' = Append(produced, Owned("Ok", ei, b1)) /\ held' = h1
    /\ ei' = ei + 1
    /\ UNCHANGED <<members, epc, eop, eret>>
    /\ UNCHANGED enumRest

\* Drop for Methods: ReleaseTypeAttr; the caller may drop the iterator at any index
DropMethods ==
    /\ epc = "loop"
    /\ eop = "Methods"
    /\ held' = Release(held, {1})
    /\ epc' = "done"
    /\ eret' = "Ok"
    /\ UNCHANGED <<members, eop, ei, produced>>
    /\ UNCHANGED enumRest

\* the blocks released when the Methods K of p are destroyed: struct Method
\* holds func_desc and has no Drop
MethodDropBlocks(p, K) == {}

\* a yielded Method goes out of scope
DropMethod ==
    /\ eop = "Methods"
    /\ \E k \in Alive(produced) :
         /\ held' = Release(held, MethodDropBlocks(produced, {k}))
         /\ produced' = Dropped(produced, {k})
    /\ UNCHANGED <<members, epc, eop, ei, eret>>
    /\ UNCHANGED enumRest

MethodsNext == MethodsNew \/ MethodsIterNext \/ DropMethods \/ DropMethod

(***************************************************************************)
(* OleTypeLibData: construction acquires the library attribute block.      *)
(***************************************************************************)
\* the ways an OleTypeLibData is built, each through GetLibAttr()?
Constructors == {"make", "new", "try_from", "search_registry"}

\* make, new1/new2/new3, try_from, oletypelib_search_registry(2): the value
\* built owns the TLIBATTR block; a failed GetLibAttr builds nothing
NewTypeLib ==
    /\ eop \in {"none", "typelib"}
    /\ Len(produced) < MaxLibs
    /\ eop' = "typelib"
    /\ epc' = "done"
    /\ \E c \in Constructors, ok \in BOOLEAN :
         IF ok
         THEN /\ held' = Acquire(held, "lib", Len(produced))
              /\ produced' = Append(produced, Owned(c, Len(produced), Len(held) + 1))
              /\ eret' = "Ok"
         ELSE /\ eret' = "Err"
              /\ UNCHANGED <<held, produced>>
    /\ UNCHANGED <<members, ei>>
    /\ UNCHANGED enumRest

\* the blocks released when the OleTypeLibData values K of p are destroyed:
\* the struct has no Drop and nothing calls ReleaseTLibAttr
TypeLibDropBlocks(p, K) == {}

\* an OleTypeLibData goes out of scope
DropTypeLib ==
    /\ eop = "typelib"
    /\ \E k \in Alive(produced) :
         /\ held' = Release(held, TypeLibDropBlocks(produced, {k}))
         /\ produced' = Dropped(produced, {k})
    /\ UNCHANGED <<members, epc, eop, ei, eret>>
    /\ UNCHANGED enumRest

TypeLibNext == NewTypeLib \/ DropTypeLib

(***************************************************************************)
(* find_coclass: the coclass of the library that implements, as a default  *)
(* interface, the interface wanted; it returns the coclass with its        *)
(* attribute block in an ITypeInfoData, which releases the block on drop.  *)
(***************************************************************************)
IMPLTYPEFLAG_FDEFAULT == 1

\* implemented-type entries with and without the default flag, and entries
\* whose flags or reference cannot be fetched
DefaultImpls ==
    {ImplEntry(t, fl, TRUE, TRUE) : t \in {2, 3}, fl \in {0, IMPLTYPEFLAG_FDEFAULT}}
        \cup {ImplEntry(2, IMPLTYPEFLAG_FDEFAULT, FALSE, TRUE),
              ImplEntry(2, IMPLTYPEFLAG_FDEFAULT, TRUE, FALSE)}

\* the interfaces a caller may look for
Wanted == {2, 3}

NoFrame == [want |-> 0, j |-> 0, typeattr2 |-> 0, inner |-> FALSE, stale |-> FALSE]

\* flags & IMPLTYPEFLAG_FDEFAULT == IMPLTYPEFLAGS(0)
LacksDefault(fl) == fl % 2 = 0

\* find_coclass: GetContainingTypeLib()?, GetTypeInfoCount
FindCoclass ==
    /\ epc = "idle"
    /\ eop' = "find_coclass"
    /\ \E w \in Wanted, ok \in BOOLEAN :
         IF ok
         THEN /\ fc' = [NoFrame EXCEPT !.want = w]
              /\ epc' = "loop"
              /\ eret' = eret
         ELSE /\ fc' = fc
              /\ epc' = "done"
              /\ eret' = "Err"
    /\ UNCHANGED <<ei, produced, held>>
    /\ UNCHANGED coRest

\* find_coclass: a turn of the loop over the records of the library, up to
\* the start of the loop over the implemented types of a coclass
CoclassOuter ==
    /\ epc = "loop"
    /\ eop = "find_coclass"
    /\ ~fc.inner
    /\ IF ei = Len(lib)
       THEN /\ epc' = "done"
            /\ eret' = "Err"
            /\ UNCHANGED <<ei, held, fc>>
       ELSE LET r == lib[ei + 1]
                h1 == Acquire(held, "attr", ei)
            IN /\ UNCHANGED <<epc, eret>>
               /\ IF ~r.attr
                  THEN ei' = ei + 1 /\ UNCHANGED <<held, fc>>
                  ELSE IF r.typekind # TKIND_COCLASS
                  THEN ei' = ei + 1 /\ held' = Release(h1, {Len(h1)}) /\ fc' = fc
                  ELSE /\ held' = h1
                       /\ fc' = [fc EXCEPT !.j = 0, !.typeattr2 = Len(h1), !.inner = TRUE]
                       /\ ei' = ei
    /\ UNCHANGED <<eop, produced>>
    /\ UNCHANGED coRest

\* what the inner loop does with typeattr2 when the implemented type is not
\* the interface wanted: ReleaseTypeAttr(typeattr2), and on to the next j
OnOtherInterface(h, b) == Release(h, {b})

\* find_coclass: a turn of the loop over the implemented types of a coclass
CoclassInner ==
    /\ epc = "loop"
    /\ eop = "find_coclass"
    /\ fc.inner
    /\ LET impls == lib[ei + 1].impls IN
       IF fc.j = Len(impls)
       THEN /\ fc' = [fc EXCEPT !.inner = FALSE]
            /\ ei' = ei + 1
            /\ UNCHANGED <<epc, eret, produced, held>>
       ELSE LET e == impls[fc.j + 1]
                h1 == Acquire(held, "refattr", e.target - 1)
            IN IF ~e.flagsOk \/ LacksDefault(e.flags) \/ ~e.ref \/ ~lib[e.target].attr
               THEN /\ fc' = [fc EXCEPT !.j = @ + 1]
                    /\ UNCHANGED <<epc, eret, produced, held, ei>>
               ELSE IF e.target = fc.want
               THEN /\ produced' = <<Owned("Ok", ei, fc.typeattr2)>>
                    /\ fc' = [fc EXCEPT !.stale = held[fc.typeattr2].released > 0]
                    /\ held' = h1
                    /\ epc' = "done"
                    /\ eret' = "Ok"
                    /\ ei' = ei
               ELSE /\ held' = OnOtherInterface(h1, fc.typeattr2)
                    /\ fc' = [fc EXCEPT !.j = @ + 1]
                    /\ UNCHANGED <<epc, eret, produced, ei>>
    /\ eop' = eop
    /\ UNCHANGED coRest

\* Drop for ITypeInfoData: ReleaseTypeAttr(self.typedata)
DropTypeInfoData ==
    /\ eop = "find_coclass"
    /\ \E k \in Alive(produced) :
         /\ held' = Release(held, DropBlocks(produced, {k}))
         /\ produced' = Dropped(produced, {k})
    /\ UNCHANGED <<epc, eop, ei, eret, fc>>
    /\ UNCHANGED coRest

CoclassNext == FindCoclass \/ CoclassOuter \/ CoclassInner \/ DropTypeInfoData

(***************************************************************************)
(* type_to_string of windows-tlb-bindgen: the Rust type of a TYPEDESC.     *)
(***************************************************************************)
VT_VOID == 24
VT_HRESULT == 25
VT_PTR == 26
VT_SAFEARRAY == 27
VT_CARRAY == 28
VT_USERDEFINED == 29
VT_LPSTR == 30
VT_LPWSTR == 31
PARAMFLAG_FIN == 1
PARAMFLAG_FOUT == 2
PARAMFLAG_FRETVAL == 8
PARAMFLAG_FOPT == 16

\* a TYPEDESC: vt, for VT_PTR the pointee (lptdesc), for VT_CARRAY the
\* element (tdescElem) and the cElements of rgbounds in declaration order,
\* for VT_USERDEFINED the reference handle (hreftype)
TypeDesc(vt, inner, bounds, hreftype) ==
    [vt |-> vt, sub |-> inner, bounds |-> bounds, hreftype |-> hreftype]
Plain(vt) == TypeDesc(vt, <<>>, <<>>, 0)
Pointer(t) == TypeDesc(VT_PTR, <<t>>, <<>>, 0)
CArray(t, bounds) == TypeDesc(VT_CARRAY, <<t>>, bounds, 0)
UserDefined(hreftype) == TypeDesc(VT_USERDEFINED, <<>>, <<>>, hreftype)

BaseTypes == {VT_I2, VT_I4}
DimSizes == {3, 5}
BoundLists == SeqsUpTo(DimSizes, MaxDims) \ {<<>>}
ParamFlagSets == {0, PARAMFLAG_FIN, PARAMFLAG_FOUT, PARAMFLAG_FIN + PARAMFLAG_FOUT,
                  PARAMFLAG_FIN + PARAMFLAG_FOPT, PARAMFLAG_FOUT + PARAMFLAG_FRETVAL}

RECURSIVE TypeDescs(_)
TypeDescs(depth) ==
    IF depth = 0
    THEN {Plain(vt) : vt \in BaseTypes}
    ELSE LET below == TypeDescs(depth - 1) IN
         below \cup {Pointer(t) : t \in below}
               \cup {CArray(t, b) : t \in below, b \in BoundLists}

well_known_type_to_string(vt) ==
    CASE vt = VT_I2 -> "i16" [] vt = VT_I4 -> "i32" [] vt = VT_R4 -> "f32"
      [] vt = VT_R8 -> "f64" [] vt = VT_CY -> "CY" [] vt = VT_DATE -> "f64"
      [] vt = VT_BSTR -> "::windows::core::PWSTR" [] vt = VT_DISPATCH -> "IDispatch"
      [] vt = VT_ERROR -> "i32" [] vt = VT_BOOL -> "VARIANT_BOOL"
      [] vt = VT_VARIANT -> "VARIANT" [] vt = VT_UNKNOWN -> "::windows::core::IUnknown"
      [] vt = VT_DECIMAL -> "DECIMAL" [] vt = VT_I1 -> "i8" [] vt = VT_UI1 -> "u8"
      [] vt = VT_UI2 -> "u16" [] vt = VT_UI4 -> "u32" [] vt = VT_I8 -> "i64"
      [] vt = VT_UI8 -> "u64" [] vt = VT_INT -> "i32" [] vt = VT_UINT -> "u32"
      [] vt = VT_VOID -> "c_void" [] vt = VT_HRESULT -> "::windows::core::HRESULT"
      [] vt = VT_SAFEARRAY -> "SAFEARRAY" [] vt = VT_LPSTR -> "::windows::core::PSTR"
      [] vt = VT_LPWSTR -> "::windows::core::PWSTR"
      [] OTHER -> "unreachable!()"

\* (param_flags & PARAMFLAG_FIN) == PARAMFLAG_FIN
\*     && (param_flags & PARAMFLAG_FOUT) == PARAMFLAGS(0)
InOnlyMut(f) == (f \div PARAMFLAG_FIN) % 2 = 1
InOnly(f) == (f \div PARAMFLAG_FIN) % 2 = 1 /\ (f \div PARAMFLAG_FOUT) % 2 = 0

\* for dimension in dimensions { type_name = format!("[{}; {}]", type_name, dimension.cElements) }
RECURSIVE WrapDimensions(_, _)
WrapDimensions(type_name, dimensions) ==
    IF dimensions = <<>>
    THEN type_name
    ELSE WrapDimensions("[" \o type_name \o "; " \o ToString(Head(dimensions)) \o "]",
                        Tail(dimensions))

\* BuildResult, its two counters
BuildResult(missing, not_found) ==
    [num_missing_types |-> missing, num_types_not_found |-> not_found]

\* Result<String, Error> of type_to_string, with the BuildResult it leaves
\* behind its &mut
Ok(value, br) == [tag |-> "Ok", value |-> value, build_result |-> br]
Err(error, br) == [tag |-> "Err", value |-> error, build_result |-> br]

TYPE_E_CANTLOADLIBRARY == "TYPE_E_CANTLOADLIBRARY"
TYPE_E_ELEMENTNOTFOUND == "TYPE_E_ELEMENTNOTFOUND"

\* what the references of a type record resolve to: reference 1 to a type
\* named IFoo, reference 2 to a type of a library that cannot be loaded,
\* reference 3 to nothing
RefTable ==
    <<[tag |-> "Ok", name |-> "IFoo"],
      [tag |-> "Err", error |-> TYPE_E_CANTLOADLIBRARY],
      [tag |-> "Err", error |-> TYPE_E_ELEMENTNOTFOUND]>>
HrefTypes == DOMAIN RefTable

\* typeinfo.get_ref_type_info(hreftype).map(|ref_type_info| ref_type_info.name().to_string())
get_ref_type_info(typeinfo, hreftype) == typeinfo.refs[hreftype]

RECURSIVE type_to_string(_, _, _, _)
type_to_string(type_, param_flags, typeinfo, br) ==
    IF type_.vt = VT_PTR
    THEN LET inner == type_to_string(type_.sub[1], param_flags, typeinfo, br) IN
         IF inner.tag = "Err"
         THEN inner
         ELSE IF InOnly(param_flags)
              THEN [inner EXCEPT !.value = "*const " \o @]
              ELSE [inner EXCEPT !.value = "*mut " \o @]
    ELSE IF type_.vt = VT_CARRAY
    THEN LET inner == type_to_string(type_.sub[1], param_flags, typeinfo, br) IN
         IF inner.tag = "Err"
         THEN inner
         ELSE [inner EXCEPT !.value = WrapDimensions(@, type_.bounds)]
    ELSE IF type_.vt = VT_USERDEFINED
    THEN LET ref == get_ref_type_info(typeinfo, type_.hreftype) IN
         IF ref.tag = "Ok"
         THEN Ok(ref.name, br)
         ELSE IF ref.error = TYPE_E_CANTLOADLIBRARY
              THEN Ok("__missing_type__",
                      [br EXCEPT !.num_types_not_found = @ + 1])
              ELSE Err(ref.error, br)
    ELSE Ok(well_known_type_to_string(type_.vt), br)

\* the record type_to_string is given as typeinfo
TypeInfo == [refs |-> RefTable]

RenderIdle ==
    /\ rpc = "idle"
    /\ rout = ""

\* one call of type_to_string
Render ==
    /\ rpc = "idle"
    /\ rout' = type_to_string(rdesc, rflags, TypeInfo, BuildResult(0, 0)).value
    /\ rpc' = "done"
    /\ UNCHANGED <<rdesc, rflags>>
    /\ UNCHANGED renderRest

RenderNext == Render

RestDesc == Plain(VT_I4)

(***************************************************************************)
(* build of windows-tlb-bindgen: the loop over the type records of the     *)
(* library, for the records that are structures (TKIND_RECORD).            *)
(***************************************************************************)
\* a type record of the library: what GetTypeInfo gives for its index
\* ("Ok" or the error), whether OleTypeData::try_from succeeds on it, and the
\* TYPEDESCs of its fields
TypeRecord(get, try_from, fields) == [get |-> get, try_from |-> try_from, fields |-> fields]

FieldDescs == {Plain(VT_I4), Pointer(UserDefined(2))} \cup {UserDefined(h) : h \in HrefTypes}
TypeRecords ==
    {TypeRecord("Ok", TRUE, f) : f \in SeqsUpTo(FieldDescs, MaxFields)}
    \cup {TypeRecord("Ok", FALSE, <<>>),
          TypeRecord(TYPE_E_CANTLOADLIBRARY, FALSE, <<>>),
          TypeRecord(TYPE_E_ELEMENTNOTFOUND, FALSE, <<>>)}

BuildIdle ==
    /\ bpc = "idle"
    /\ typeinfos = 0
    /\ build_result = BuildResult(0, 0)
    /\ written = <<>>
    /\ bret = "none"

\* build up to the loop: ole_initialized, LoadTypeLibEx(..)?, TypeInfos::from
BuildLoad ==
    /\ bpc = "idle"
    /\ \E loaded \in BOOLEAN :
         IF loaded
         THEN bpc' = "loop" /\ bret' = bret
         ELSE bpc' = "done" /\ bret' = "Err: LoadTypeLibEx"
    /\ UNCHANGED <<typelib, typeinfos, build_result, written>>
    /\ UNCHANGED buildRest

\* TKIND_RECORD: for field in typeinfo.variables() { type_to_string(..)?; writeln!(..) }
RECURSIVE WriteFields(_, _, _, _)
WriteFields(fields, typeinfo, br, out) ==
    IF fields = <<>>
    THEN [tag |-> "Ok", build_result |-> br, out |-> out]
    ELSE LET type_string == type_to_string(Head(fields), PARAMFLAG_FOUT, typeinfo, br) IN
         IF type_string.tag = "Err"
         THEN [tag |-> "Err", build_result |-> type_string.build_result, out |-> out]
         ELSE WriteFields(Tail(fields), typeinfo, type_string.build_result,
                          Append(out, [type_string |-> type_string.value,
                                       typedesc |-> Head(fields)]))

\* one turn of for typeinfo in typeinfos
BuildTurn ==
    /\ bpc = "loop"
    /\ typeinfos < Len(typelib)
    /\ typeinfos' = typeinfos + 1
    /\ LET typeinfo == typelib[typeinfos + 1] IN
         IF typeinfo.get = TYPE_E_CANTLOADLIBRARY
         THEN /\ build_result' = [build_result EXCEPT !.num_types_not_found = @ + 1]
              /\ UNCHANGED <<bpc, written, bret>>
         ELSE IF typeinfo.get # "Ok"
         THEN /\ bpc' = "done"
              /\ bret' = "Err: GetTypeInfo"
              /\ UNCHANGED <<build_result, written>>
         ELSE IF ~typeinfo.try_from
         THEN /\ bpc' = "done"
              /\ bret' = "Err: try_from"
              /\ UNCHANGED <<build_result, written>>
         ELSE LET fields == WriteFields(typeinfo.fields, TypeInfo, build_result, written) IN
              /\ build_result' = fields.build_result
              /\ written' = fields.out
              /\ IF fields.tag = "Err"
                 THEN bpc' = "done" /\ bret' = "Err: type_to_string"
                 ELSE UNCHANGED <<bpc, bret>>
    /\ UNCHANGED typelib
    /\ UNCHANGED buildRest

\* Ok(build_result)
BuildReturn ==
    /\ bpc = "loop"
    /\ typeinfos = Len(typelib)
    /\ bpc' = "done"
    /\ bret' = "Ok"
    /\ UNCHANGED <<typelib, typeinfos, build_result, written>>
    /\ UNCHANGED buildRest

BuildNext == BuildLoad \/ BuildTurn \/ BuildReturn

(***************************************************************************)
(* The implemented types of a type record: ole_type_impl_ole_types and the *)
(* methods of OleTypeData built on it.                                     *)
(***************************************************************************)
\* flags & implflags on IMPLTYPEFLAGS
RECURSIVE BitAnd(_, _)
BitAnd(a, b) ==
    IF a = 0 \/ b = 0
    THEN 0
    ELSE (a % 2) * (b % 2) + 2 * BitAnd(a \div 2, b \div 2)

\* (flags & implflags) == implflags
FlagsSelectedMut(flags_, implflags) == BitAnd(flags_, implflags) # 0
FlagsSelected(flags_, implflags) == BitAnd(flags_, implflags) = implflags

\* an OleTypeData pushed to types: the record it wraps; entry is the index
\* of the table entry it was made from
ImplType(t, i) == [typeinfo |-> t, entry |-> i]

\* OleTypeData::try_from(&ref_type_info)
try_from(t) == IF t \in unnamed THEN "Err" ELSE "Ok"

\* for i in 0..cImplTypes, from entry i on
RECURSIVE ImplTypesLoop(_, _, _, _)
ImplTypesLoop(typeinfo, implflags, i, acc) ==
    IF i > Len(lib[typeinfo].impls)
    THEN acc
    ELSE LET e == lib[typeinfo].impls[i] IN
         IF ~e.flagsOk
         THEN ImplTypesLoop(typeinfo, implflags, i + 1, acc)
         ELSE IF ~e.ref
         THEN ImplTypesLoop(typeinfo, implflags, i + 1, acc)
         ELSE IF FlagsSelected(e.flags, implflags) /\ try_from(e.target) = "Ok"
         THEN ImplTypesLoop(typeinfo, implflags, i + 1, Append(acc, ImplType(e.target, i)))
         ELSE ImplTypesLoop(typeinfo, implflags, i + 1, acc)

ole_type_impl_ole_types(typeinfo, implflags) ==
    IF ~lib[typeinfo].attr
    THEN [tag |-> "Err", value |-> <<>>]
    ELSE [tag |-> "Ok", value |-> ImplTypesLoop(typeinfo, implflags, 1, <<>>)]

NoTypes == [tag |-> "none", value |-> <<>>]

ImplIdle ==
    /\ icall = "none"
    /\ types = NoTypes

implemented_ole_types ==
    /\ icall = "none"
    /\ icall' = "implemented_ole_types"
    /\ types' = ole_type_impl_ole_types(TopRec, 0)
    /\ UNCHANGED unnamed
    /\ UNCHANGED implRest

source_ole_types ==
    /\ icall = "none"
    /\ icall' = "source_ole_types"
    /\ types' = ole_type_impl_ole_types(TopRec, IMPLTYPEFLAG_FSOURCE)
    /\ UNCHANGED unnamed
    /\ UNCHANGED implRest

default_event_sources ==
    /\ icall = "none"
    /\ icall' = "default_event_sources"
    /\ types' = ole_type_impl_ole_types(TopRec, IMPLTYPEFLAG_FSOURCE + IMPLTYPEFLAG_FDEFAULT)
    /\ UNCHANGED unnamed
    /\ UNCHANGED implRest

default_ole_types ==
    /\ icall = "none"
    /\ icall' = "default_ole_types"
    /\ types' = ole_type_impl_ole_types(TopRec, IMPLTYPEFLAG_FDEFAULT)
    /\ UNCHANGED unnamed
    /\ UNCHANGED implRest

ImplNext ==
    implemented_ole_types \/ source_ole_types \/ default_event_sources \/ default_ole_types

\* the entries an implemented-type table may hold: every combination of the
\* source and default flags, alone or with the restricted flag, and entries
\* whose flags or reference cannot be fetched
IMPLTYPEFLAG_FRESTRICTED == 4
AnyImpls ==
    {ImplEntry(t, fl, TRUE, TRUE) :
        t \in {2, 3},
        fl \in {0, IMPLTYPEFLAG_FDEFAULT, IMPLTYPEFLAG_FSOURCE,
                IMPLTYPEFLAG_FDEFAULT + IMPLTYPEFLAG_FSOURCE,
                IMPLTYPEFLAG_FSOURCE + IMPLTYPEFLAG_FRESTRICTED}}
        \cup {ImplEntry(2, IMPLTYPEFLAG_FDEFAULT + IMPLTYPEFLAG_FSOURCE, FALSE, TRUE),
              ImplEntry(2, IMPLTYPEFLAG_FDEFAULT + IMPLTYPEFLAG_FSOURCE, TRUE, FALSE)}

(***************************************************************************)
(* The method lists of an object: typeinfo_from_ole, raw_ole_methods,      *)
(* ole_methods_from_typeinfo and the methods of OleData built on them.     *)
(***************************************************************************)
INVOKE_FUNC == 1
INVOKE_PROPERTYGET == 2
INVOKE_PROPERTYPUT == 4
INVOKE_PROPERTYPUTREF == 8

\* a function with its INVOKEKIND
KindFunc(k, dok, nok) == [name |-> "A", desc |-> dok, doc |-> nok, invkind |-> k]
KindFuncs ==
    {KindFunc(k, TRUE, TRUE) :
        k \in {INVOKE_FUNC, INVOKE_PROPERTYGET, INVOKE_PROPERTYPUT, INVOKE_PROPERTYPUTREF,
               INVOKE_PROPERTYGET + INVOKE_PROPERTYPUT}}
        \cup {KindFunc(INVOKE_FUNC, FALSE, TRUE), KindFunc(INVOKE_FUNC, TRUE, FALSE)}

\* an entry of OleClassNames with what GetTypeInfo gives for its index: the
\* name is "Err" when GetDocumentation fails
ClassName(n, get) == [name |-> n, get |-> get]

\* the object: whether IDispatch::GetTypeInfo, GetDocumentation(-1) and
\* GetContainingTypeLib succeed, the name of its type, and the class names
\* of the containing library
Ole(ti, doc, containing, class_names) ==
    [type_info |-> ti, doc |-> doc, containing |-> containing, type_ |-> "T",
     class_names |-> class_names]

\* the object whose type is record 1 of the library
RestOle ==
    Ole(TRUE, TRUE, TRUE, <<ClassName("T", TRUE), ClassName("U", TRUE), ClassName("U", TRUE)>>)

ClassNameLists ==
    {<<ClassName("T", TRUE), ClassName("U", TRUE), ClassName("U", TRUE)>>,
     <<ClassName("U", TRUE), ClassName("T", TRUE), ClassName("U", TRUE)>>,
     <<ClassName("T", FALSE), ClassName("T", TRUE), ClassName("U", TRUE)>>,
     <<ClassName("T", FALSE), ClassName("U", TRUE), ClassName("U", TRUE)>>,
     <<ClassName("Err", TRUE), ClassName("U", TRUE), ClassName("U", TRUE)>>,
     <<ClassName("U", TRUE), ClassName("U", TRUE), ClassName("U", TRUE)>>}

Oles ==
    {Ole(TRUE, TRUE, TRUE, c) : c \in ClassNameLists}
        \cup {Ole(FALSE, TRUE, TRUE, RestOle.class_names),
              Ole(TRUE, FALSE, TRUE, RestOle.class_names),
              Ole(TRUE, TRUE, FALSE, RestOle.class_names)}

\* for (idx, class_name) in ole_class_names.enumerate(): the record found, 0 for None
RECURSIVE ret_type_info(_, _, _)
ret_type_info(class_names, type_, idx) ==
    IF idx > Len(class_names)
    THEN 0
    ELSE IF class_names[idx].name # "Err"
              /\ class_names[idx].name = type_
              /\ class_names[idx].get
         THEN idx
         ELSE ret_type_info(class_names, type_, idx + 1)

\* Option::unwrap
Unwrap(o) ==
    IF o = 0
    THEN [tag |-> "panic", typeinfo |-> 0]
    ELSE [tag |-> "Ok", typeinfo |-> o]

typeinfo_from_ole(o) ==
    IF ~o.type_info \/ ~o.doc \/ ~o.containing
    THEN [tag |-> "Err", typeinfo |-> 0]
    ELSE Unwrap(ret_type_info(o.class_names, o.type_, 1))

\* (*func_desc_ptr).invkind.0 & mask != 0
KindSelectedMut(invkind, mask) == BitAnd(invkind, mask) = mask
KindSelected(invkind, mask) == BitAnd(invkind, mask) # 0

\* ole_methods_sub: for i in 0..cFuncs, from function i on
RECURSIVE MethodsSubLoop(_, _, _, _, _)
MethodsSubLoop(owner_typeinfo, typeinfo, acc, mask, i) ==
    IF i > Len(lib[typeinfo].funcs)
    THEN acc
    ELSE LET f == lib[typeinfo].funcs[i] IN
         IF ~f.desc
         THEN MethodsSubLoop(owner_typeinfo, typeinfo, acc, mask, i + 1)
         ELSE IF ~f.doc
         THEN MethodsSubLoop(owner_typeinfo, typeinfo, acc, mask, i + 1)
         ELSE IF KindSelected(f.invkind, mask)
         THEN MethodsSubLoop(owner_typeinfo, typeinfo,
                             Append(acc, [owner |-> owner_typeinfo, typeinfo |-> typeinfo,
                                          name |-> f.name, index |-> i - 1]),
                             mask, i + 1)
         ELSE MethodsSubLoop(owner_typeinfo, typeinfo, acc, mask, i + 1)

ole_methods_sub(owner_typeinfo, typeinfo, acc, mask) ==
    IF ~lib[typeinfo].attr
    THEN [tag |-> "Err", value |-> acc]
    ELSE [tag |-> "Ok", value |-> MethodsSubLoop(owner_typeinfo, typeinfo, acc, mask, 1)]

\* ole_methods_from_typeinfo: for i in 0..cImplTypes, from entry i on
RECURSIVE MethodsImplLoop(_, _, _, _)
MethodsImplLoop(typeinfo, acc, mask, i) ==
    IF i > Len(lib[typeinfo].impls)
    THEN [tag |-> "Ok", value |-> acc]
    ELSE LET e == lib[typeinfo].impls[i] IN
         IF ~e.ref
         THEN MethodsImplLoop(typeinfo, acc, mask, i + 1)
         ELSE LET r == ole_methods_sub(typeinfo, e.target, acc, mask) IN
              IF r.tag = "Err"
              THEN r
              ELSE MethodsImplLoop(typeinfo, r.value, mask, i + 1)

ole_methods_from_typeinfo(typeinfo, mask) ==
    IF ~lib[typeinfo].attr
    THEN [tag |-> "Err", value |-> <<>>]
    ELSE LET own == ole_methods_sub(0, typeinfo, <<>>, mask) IN
         IF own.tag = "Err"
         THEN own
         ELSE MethodsImplLoop(typeinfo, own.value, mask, 1)

raw_ole_methods(o, mask) ==
    LET typeinfo == typeinfo_from_ole(o) IN
    IF typeinfo.tag # "Ok"
    THEN [tag |-> typeinfo.tag, value |-> <<>>]
    ELSE ole_methods_from_typeinfo(typeinfo.typeinfo, mask)

NoMethods == [tag |-> "none", value |-> <<>>]

OleIdle ==
    /\ ocall = "none"
    /\ methods = NoMethods

ole_methods ==
    /\ ocall = "none"
    /\ ocall' = "ole_methods"
    /\ methods' = raw_ole_methods(ole, INVOKE_FUNC + INVOKE_PROPERTYGET
                                        + INVOKE_PROPERTYPUT + INVOKE_PROPERTYPUTREF)
    /\ UNCHANGED ole
    /\ UNCHANGED oleRest

ole_get_methods ==
    /\ ocall = "none"
    /\ ocall' = "ole_get_methods"
    /\ methods' = raw_ole_methods(ole, INVOKE_PROPERTYGET)
    /\ UNCHANGED ole
    /\ UNCHANGED oleRest

ole_put_methods ==
    /\ ocall = "none"
    /\ ocall' = "ole_put_methods"
    /\ methods' = raw_ole_methods(ole, INVOKE_PROPERTYPUT + INVOKE_PROPERTYPUTREF)
    /\ UNCHANGED ole
    /\ UNCHANGED oleRest

ole_func_methods ==
    /\ ocall = "none"
    /\ ocall' = "ole_func_methods"
    /\ methods' = raw_ole_methods(ole, INVOKE_FUNC)
    /\ UNCHANGED ole
    /\ UNCHANGED oleRest

\* ole_method_help(cmdname): a failure of typeinfo_from_ole becomes
\* Error::Custom, then OleMethodData::from_typeinfo
ole_method_help ==
    /\ ocall = "none"
    /\ ocall' = "ole_method_help"
    /\ LET typeinfo == typeinfo_from_ole(ole) IN
         IF typeinfo.tag # "Ok"
         THEN methods' = [tag |-> typeinfo.tag, value |-> <<>>]
         ELSE \E found \in {"Ok", "Err"} : methods' = [tag |-> found, value |-> <<>>]
    /\ UNCHANGED ole
    /\ UNCHANGED oleRest

OleNext ==
    ole_methods \/ ole_get_methods \/ ole_put_methods \/ ole_func_methods \/ ole_method_help

(***************************************************************************)
(* COM initialization of a thread: the thread-local OLE_INITIALIZED, its   *)
(* initializer and its Drop, ole_initialized, and the entry points that    *)
(* load a type library or activate an object.                              *)
(***************************************************************************)
Threads == {"main", "worker"}

ComIdle ==
    /\ thread = [t \in Threads |-> "running"]
    /\ tls = [t \in Threads |-> "uninit"]
    /\ asked = [t \in Threads |-> 0]
    /\ com = [t \in Threads |-> <<>>]

\* the initializer of OLE_INITIALIZED
InitializeCall == IF nano THEN "CoInitializeEx" ELSE "OleInitialize"
\* Drop for OleInitialized
UninitializeCall == IF nano THEN "CoUninitialize" ELSE "OleUninitialize"

\* OLE_INITIALIZED.with(|_| {}) on thread t, the initializer succeeding or
\* not: what becomes of the slot, of the thread and of the platform calls
LazyMut(slot) == TRUE
Lazy(slot) == slot = "uninit"
With(t, ok) ==
    IF Lazy(tls[t])
    THEN [tls |-> IF ok THEN "alive" ELSE "uninit",
          thread |-> IF ok THEN "running" ELSE "panicked",
          com |-> Append(com[t], InitializeCall)]
    ELSE [tls |-> tls[t], thread |-> thread[t], com |-> com[t]]

\* the entry point runs on thread t: ole_initialized() first if it makes it,
\* then its platform calls unless the initializer panicked
Enter(t, initializes, calls) ==
    /\ asked[t] < MaxCalls
    /\ Len(com[t]) <= MaxCalls
    /\ \E ok \in BOOLEAN :
         LET w == IF initializes
                  THEN With(t, ok)
                  ELSE [tls |-> tls[t], thread |-> thread[t], com |-> com[t]]
         IN /\ tls' = [tls EXCEPT ![t] = w.tls]
            /\ thread' = [thread EXCEPT ![t] = w.thread]
            /\ com' = [com EXCEPT ![t] = IF w.thread = "running" THEN w.com \o calls ELSE w.com]
    /\ asked' = [asked EXCEPT ![t] = IF initializes THEN @ + 1 ELSE @]
    /\ UNCHANGED nano
    /\ UNCHANGED comRest

\* ole_initialized()
ole_initialized ==
    \E t \in Threads :
      /\ thread[t] = "running"
      /\ Enter(t, TRUE, <<>>)

\* the thread ends: its thread-local values are destroyed
ThreadExit ==
    \E t \in Threads :
      /\ thread[t] \in {"running", "panicked"}
      /\ thread' = [thread EXCEPT ![t] = "exited"]
      /\ IF tls[t] = "alive"
         THEN /\ com' = [com EXCEPT ![t] = Append(@, UninitializeCall)]
              /\ tls' = [tls EXCEPT ![t] = "destroyed"]
         ELSE UNCHANGED <<com, tls>>
      /\ UNCHANGED <<nano, asked>>
      /\ UNCHANGED comRest

\* OleData::new: create_com_object: ole_initialized, get_class_id, create_instance
OleDataNew ==
    \E t \in Threads, known \in BOOLEAN :
      /\ thread[t] = "running"
      /\ Enter(t, TRUE, IF known THEN <<"CLSIDFromProgID", "CoCreateInstance">>
                                 ELSE <<"CLSIDFromProgID">>)

\* OleTypeData::new: ole_initialized, typelib_file, LoadTypeLibEx
OleTypeDataNew ==
    \E t \in Threads, file \in BOOLEAN :
      /\ thread[t] = "running"
      /\ Enter(t, TRUE, IF file THEN <<"LoadTypeLibEx">> ELSE <<>>)

\* build of windows-tlb-bindgen: ole_initialized, LoadTypeLibEx
BuildEnter ==
    \E t \in Threads :
      /\ thread[t] = "running"
      /\ Enter(t, TRUE, <<"LoadTypeLibEx">>)

\* oletypelib_from_guid: oletypelib_path, LoadTypeLibEx
oletypelib_from_guid ==
    \E t \in Threads, path \in BOOLEAN :
      /\ thread[t] = "running"
      /\ Enter(t, FALSE, IF path THEN <<"LoadTypeLibEx">> ELSE <<>>)

\* OleTypeLibData::new1, new2, new3: the registry searches load through
\* oletypelib_from_guid, then LoadTypeLibEx of the string given
OleTypeLibDataNew ==
    \E t \in Threads :
      /\ thread[t] = "running"
      /\ Enter(t, FALSE, <<"LoadTypeLibEx">>)

\* typelibs: oletypelib_from_guid for every version key of the registry
typelibs ==
    \E t \in Threads, keys \in BOOLEAN :
      /\ thread[t] = "running"
      /\ Enter(t, FALSE, IF keys THEN <<"LoadTypeLibEx">> ELSE <<>>)

ComNext == ole_initialized \/ ThreadExit

EntryNext ==
    \/ ole_initialized
    \/ ThreadExit
    \/ OleDataNew
    \/ OleTypeDataNew
    \/ BuildEnter
    \/ oletypelib_from_guid
    \/ OleTypeLibDataNew
    \/ typelibs

(***************************************************************************)
(* The type of a parameter or variable as text: ole_typedesc2val and       *)
(* ole_ptrtype2val, as methods of ValueDescription (util/ole.rs) and as    *)
(* free functions (util.rs).                                               *)
(***************************************************************************)
VT_RECORD == 36

SafeArray(t) == TypeDesc(VT_SAFEARRAY, <<t>>, <<>>, 0)

\* the TYPEDESCs nested through lptdesc up to depth
RECURSIVE ValDescs(_)
ValDescs(depth) ==
    IF depth = 0
    THEN {Plain(VT_I2), Plain(VT_I4), UserDefined(1)}
    ELSE LET below == ValDescs(depth - 1) IN
         below \cup {Pointer(t) : t \in below} \cup {SafeArray(t) : t \in below}

\* the arms of the match that yield typestr
typestr(vt) ==
    CASE vt = VT_I2 -> "I2" [] vt = VT_I4 -> "I4" [] vt = VT_R4 -> "R4" [] vt = VT_R8 -> "R8"
      [] vt = VT_CY -> "CY" [] vt = VT_DATE -> "DATE" [] vt = VT_BSTR -> "BSTR"
      [] vt = VT_BOOL -> "BOOL" [] vt = VT_VARIANT -> "VARIANT" [] vt = VT_DECIMAL -> "DECIMAL"
      [] vt = VT_I1 -> "I1" [] vt = VT_UI1 -> "UI1" [] vt = VT_UI2 -> "UI2"
      [] vt = VT_UI4 -> "UI4" [] vt = VT_I8 -> "I8" [] vt = VT_UI8 -> "UI8"
      [] vt = VT_INT -> "INT" [] vt = VT_UINT -> "UINT" [] vt = VT_VOID -> "VOID"
      [] vt = VT_HRESULT -> "HRESULT" [] vt = VT_CARRAY -> "CARRAY"
      [] vt = VT_UNKNOWN -> "UNKNOWN" [] vt = VT_DISPATCH -> "DISPATCH"
      [] vt = VT_ERROR -> "ERROR" [] vt = VT_LPWSTR -> "LPWSTR" [] vt = VT_LPSTR -> "LPSTR"
      [] vt = VT_RECORD -> "RECORD"
      [] OTHER -> "Unknown Type " \o ToString(vt)

NoDetails == [some |-> FALSE, items |-> <<>>]

\* typedetails.push(s) when typedetails is Some; the vector is followed up
\* to MaxDetails strings
Push(details, str) ==
    IF details.some /\ Len(details.items) < MaxDetails
    THEN [details EXCEPT !.items = Append(@, str)]
    ELSE details

ValIdle ==
    /\ tpc = "idle"
    /\ targ = tself
    /\ tret = ""
    /\ typedetails.items = <<>>

\* ole_type / ole_type_detail: the first call of ole_typedesc2val
OleType ==
    /\ tpc = "idle"
    /\ tpc' = "ole_typedesc2val"
    /\ UNCHANGED <<tform, tself, targ, typedetails, tret>>
    /\ UNCHANGED valRest

\* what the match of ole_typedesc2val looks at: (*p).vt with
\* p = self.typedesc().Anonymous.lptdesc in the trait, typedesc.vt in the
\* free function. Where self.typedesc() is no pointer or safe array, lptdesc
\* is not the member of the union that was written and p points anywhere.
Matched ==
    IF tform = "free"
    THEN {targ.vt}
    ELSE IF tself.sub # <<>>
         THEN {tself.sub[1].vt}
         ELSE {VT_I4, VT_PTR, VT_USERDEFINED, 0, -1}

\* one call of ole_typedesc2val up to its return or its call of ole_ptrtype2val
OleTypedesc2val ==
    /\ tpc = "ole_typedesc2val"
    /\ \E vt \in Matched :
         IF vt = -1
         THEN /\ tret' = "access violation"
              /\ tpc' = "done"
              /\ UNCHANGED typedetails
         ELSE IF vt = VT_PTR
         THEN /\ typedetails' = Push(typedetails, "PTR")
              /\ tpc' = "ole_ptrtype2val"
              /\ UNCHANGED tret
         ELSE IF vt = VT_SAFEARRAY
         THEN /\ typedetails' = Push(typedetails, "SAFEARRAY")
              /\ tpc' = "ole_ptrtype2val"
              /\ UNCHANGED tret
         ELSE IF vt = VT_USERDEFINED
         THEN \E str \in {"None", "IFoo"} :
                /\ typedetails' = IF str = "None"
                                  THEN Push(typedetails, "USERDEFINED")
                                  ELSE Push(Push(typedetails, "USERDEFINED"), str)
                /\ tret' = IF str = "None" THEN "USERDEFINED" ELSE str
                /\ tpc' = "done"
         ELSE /\ typedetails' = Push(typedetails, typestr(vt))
              /\ tret' = typestr(vt)
              /\ tpc' = "done"
    /\ UNCHANGED <<tform, tself, targ>>
    /\ UNCHANGED valRest

\* the typedesc that ole_ptrtype2val hands to ole_typedesc2val: the pointee
\* in the free function, self again in the trait
Inner(form, typedesc) == IF form = "free" THEN typedesc.sub[1] ELSE typedesc

\* ole_ptrtype2val up to its call of ole_typedesc2val or its return
OlePtrtype2val ==
    /\ tpc = "ole_ptrtype2val"
    /\ LET typedesc == IF tform = "free" THEN targ ELSE tself IN
         IF typedesc.vt = VT_PTR \/ typedesc.vt = VT_SAFEARRAY
         THEN /\ targ' = IF tform = "free" THEN Inner(tform, typedesc) ELSE targ
              /\ tself' = IF tform = "free" THEN tself ELSE Inner(tform, typedesc)
              /\ tpc' = "ole_typedesc2val"
              /\ UNCHANGED tret
         ELSE /\ tret' = ""
              /\ tpc' = "done"
              /\ UNCHANGED <<targ, tself>>
    /\ UNCHANGED <<tform, typedetails>>
    /\ UNCHANGED valRest

ValNext == OleType \/ OleTypedesc2val \/ OlePtrtype2val

(***************************************************************************)
(* build, TKIND_DISPATCH: the wrapper written for one function of a        *)
(* dispinterface.                                                          *)
(***************************************************************************)
\* one element of function.params(): whether it is Ok, its PARAMFLAG_FRETVAL,
\* its TYPEDESC
WrapParam(ok, retval, tdesc) == [ok |-> ok, retval |-> retval, tdesc |-> tdesc]

WrapParams ==
    {WrapParam(ok, retval, tdesc) :
        ok \in BOOLEAN, retval \in BOOLEAN, tdesc \in {Plain(VT_I4), UserDefined(3)}}

\* inherited: has_inherited_functions && oVft < 7 * size_of::<usize>()
WrapFunction(invkind, declared, inherited) ==
    [invkind |-> invkind, params |-> declared, inherited |-> inherited]

RestWrap == WrapFunction(INVOKE_FUNC, <<>>, FALSE)

\* FUNCDESC.cParams: the parameters the function declares
cParams(f) == Len(f.params)

NoWrapper ==
    [tag |-> "none", signature |-> <<>>, declares_args |-> FALSE, elements |-> <<>>,
     disp_id_put |-> FALSE, rgvarg |-> "", rgdispidNamedArgs |-> "", cArgs |-> 0,
     cNamedArgs |-> 0]

WrapIdle ==
    /\ wpc = "idle"
    /\ wrapper = NoWrapper

\* function.params().into_iter().filter_map(|param| param.ok())
\*     .filter(|param| !param.retval()).collect(), as positions of the declaration
RECURSIVE NonRetval(_, _)
NonRetval(f, k) ==
    IF k > Len(f.params)
    THEN <<>>
    ELSE IF f.params[k].ok /\ ~f.params[k].retval
         THEN <<k>> \o NonRetval(f, k + 1)
         ELSE NonRetval(f, k + 1)

\* for param in &params { writeln!("{}: {},", name, type_to_string(..)?) }
RECURSIVE WriteSignature(_, _, _, _)
WriteSignature(f, positions, br, lines) ==
    IF positions = <<>>
    THEN [tag |-> "Ok", build_result |-> br, lines |-> lines]
    ELSE LET type_string == type_to_string(f.params[Head(positions)].tdesc, 0, TypeInfo, br) IN
         IF type_string.tag = "Err"
         THEN [tag |-> "Err", build_result |-> type_string.build_result, lines |-> lines]
         ELSE WriteSignature(f, Tail(positions), type_string.build_result,
                             Append(lines, [param |-> Head(positions),
                                            type_string |-> type_string.value]))

\* for param in params.into_iter().rev() { if !param.retval() { writeln!(..) } }
RECURSIVE ArgsElements(_, _)
ArgsElements(f, positions) ==
    IF positions = <<>>
    THEN <<>>
    ELSE LET last == positions[Len(positions)]
             rest == ArgsElements(f, SubSeq(positions, 1, Len(positions) - 1))
         IN IF ~f.params[last].retval THEN <<last>> \o rest ELSE rest

\* cArgs: {} written with function_desc.cParams
CArgs(f, positions) == cParams(f)

\* rgvarg: if function_desc.cParams > 0 { "args.as_mut_ptr()" } else { null_mut() }
Rgvarg(f) == IF cParams(f) > 0 THEN "args.as_mut_ptr()" ELSE "::core::ptr::null_mut()"

IsPut(f) == f.invkind = INVOKE_PROPERTYPUT \/ f.invkind = INVOKE_PROPERTYPUTREF

\* one turn of for function in typeinfo.functions() of the TKIND_DISPATCH arm
EmitWrapper ==
    /\ wpc = "idle"
    /\ wpc' = "done"
    /\ LET positions == NonRetval(wfunc, 1)
           sig == WriteSignature(wfunc, positions, BuildResult(0, 0), <<>>)
       IN wrapper' =
            IF wfunc.inherited
            THEN [NoWrapper EXCEPT !.tag = "continue"]
            ELSE IF sig.tag = "Err"
            THEN [NoWrapper EXCEPT !.tag = "Err", !.signature = sig.lines]
            ELSE [tag |-> "Ok",
                  signature |-> sig.lines,
                  declares_args |-> positions # <<>>,
                  elements |-> IF positions # <<>> THEN ArgsElements(wfunc, positions)
                               ELSE <<>>,
                  disp_id_put |-> IsPut(wfunc),
                  rgvarg |-> Rgvarg(wfunc),
                  rgdispidNamedArgs |-> IF IsPut(wfunc) THEN "&disp_id_put"
                                        ELSE "::core::ptr::null_mut()",
                  cArgs |-> CArgs(wfunc, positions),
                  cNamedArgs |-> IF IsPut(wfunc) THEN 1 ELSE 0]
    /\ UNCHANGED wfunc
    /\ UNCHANGED wrapRest

WrapNext == EmitWrapper

(***************************************************************************)
(* visible() of OleTypeLibData, OleTypeData and OleVariableData.           *)
(***************************************************************************)
LIBFLAG_FRESTRICTED == 1
LIBFLAG_FCONTROL == 2
LIBFLAG_FHIDDEN == 4
LIBFLAG_FHASDISKIMAGE == 8
TYPEFLAG_FAPPOBJECT == 1
TYPEFLAG_FCANCREATE == 2
TYPEFLAG_FHIDDEN == 16
TYPEFLAG_FRESTRICTED == 512
VARFLAG_FREADONLY == 1
VARFLAG_FSOURCE == 2
VARFLAG_FHIDDEN == 64
VARFLAG_FRESTRICTED == 128
VARFLAG_FNONBROWSABLE == 1024

Entity(kind, flags_, attr) == [kind |-> kind, flags |-> flags_, attr |-> attr]

RestEntity == Entity("typelib", 0, TRUE)

\* the flag words made of the given bits
RECURSIVE FlagWords(_)
FlagWords(bits) ==
    IF bits = {}
    THEN {0}
    ELSE LET b == CHOOSE x \in bits : TRUE
             below == FlagWords(bits \ {b})
         IN below \cup {w + b : w \in below}

Entities ==
    {Entity("typelib", w, TRUE) :
        w \in FlagWords({LIBFLAG_FRESTRICTED, LIBFLAG_FCONTROL, LIBFLAG_FHIDDEN,
                         LIBFLAG_FHASDISKIMAGE})}
    \cup {Entity("type", w, attr) :
        w \in FlagWords({TYPEFLAG_FAPPOBJECT, TYPEFLAG_FCANCREATE, TYPEFLAG_FHIDDEN,
                         TYPEFLAG_FRESTRICTED}),
        attr \in BOOLEAN}
    \cup {Entity("variable", w, TRUE) :
        w \in FlagWords({VARFLAG_FREADONLY, VARFLAG_FSOURCE, VARFLAG_FHIDDEN,
                         VARFLAG_FRESTRICTED, VARFLAG_FNONBROWSABLE})}

VisIdle ==
    /\ vispc = "idle"
    /\ vret = FALSE

\* OleTypeLibData::visible
OleTypeLibDataVisible ==
    /\ vispc = "idle"
    /\ entity.kind = "typelib"
    /\ vispc' = "done"
    /\ LET lib_flags == entity.flags IN
         vret' = (\/ lib_flags = 0
                  \/ BitAnd(lib_flags, LIBFLAG_FRESTRICTED) # 0
                  \/ BitAnd(lib_flags, LIBFLAG_FHIDDEN) # 0)
    /\ UNCHANGED entity
    /\ UNCHANGED visRest

\* OleTypeData::visible
OleTypeDataVisible ==
    /\ vispc = "idle"
    /\ entity.kind = "type"
    /\ vispc' = "done"
    /\ LET typeflags == entity.flags IN
         vret' = IF ~entity.attr
                 THEN TRUE
                 ELSE BitAnd(typeflags, TYPEFLAG_FHIDDEN + TYPEFLAG_FRESTRICTED) = 0
    /\ UNCHANGED entity
    /\ UNCHANGED visRest

\* OleVariableData::visible
OleVariableDataVisible ==
    /\ vispc = "idle"
    /\ entity.kind = "variable"
    /\ vispc' = "done"
    /\ vret' = (BitAnd(entity.flags, VARFLAG_FHIDDEN + VARFLAG_FRESTRICTED
                                        + VARFLAG_FNONBROWSABLE) = 0)
    /\ UNCHANGED entity
    /\ UNCHANGED visRest

VisNext == OleTypeLibDataVisible \/ OleTypeDataVisible \/ OleVariableDataVisible

\* the components defined after the parameter inspection, at rest
RenderAtRest == RenderIdle /\ rdesc = RestDesc /\ rflags = 0
BuildAtRest == BuildIdle /\ typelib = <<>>
ImplAtRest == ImplIdle /\ unnamed = {}
OleAtRest == OleIdle /\ ole = RestOle
ComAtRest == ComIdle /\ nano = FALSE
ValAtRest == tform = "free" /\ tself = RestDesc /\ typedetails = NoDetails /\ ValIdle
WrapAtRest == wfunc = RestWrap /\ WrapIdle
VisAtRest == entity = RestEntity /\ VisIdle
LaterRest == RenderAtRest /\ BuildAtRest /\ ImplAtRest /\ OleAtRest /\ ComAtRest /\ ValAtRest /\ WrapAtRest /\ VisAtRest
BesidesRender == BuildAtRest /\ ImplAtRest /\ OleAtRest /\ ComAtRest /\ ValAtRest /\ WrapAtRest /\ VisAtRest
BesidesBuild == RenderAtRest /\ ImplAtRest /\ OleAtRest /\ ComAtRest /\ ValAtRest /\ WrapAtRest /\ VisAtRest
BesidesImpl == RenderAtRest /\ BuildAtRest /\ OleAtRest /\ ComAtRest /\ ValAtRest /\ WrapAtRest /\ VisAtRest
BesidesOle == RenderAtRest /\ BuildAtRest /\ ImplAtRest /\ ComAtRest /\ ValAtRest /\ WrapAtRest /\ VisAtRest
BesidesCom == RenderAtRest /\ BuildAtRest /\ ImplAtRest /\ OleAtRest /\ ValAtRest /\ WrapAtRest /\ VisAtRest
BesidesVal == RenderAtRest /\ BuildAtRest /\ ImplAtRest /\ OleAtRest /\ ComAtRest /\ WrapAtRest /\ VisAtRest
BesidesWrap == RenderAtRest /\ BuildAtRest /\ ImplAtRest /\ OleAtRest /\ ComAtRest /\ ValAtRest /\ VisAtRest
BesidesVis == RenderAtRest /\ BuildAtRest /\ ImplAtRest /\ OleAtRest /\ ComAtRest /\ ValAtRest /\ WrapAtRest
LaterIdle == EnumIdle /\ members = <<>> /\ fc = NoFrame /\ LaterRest

(***************************************************************************)
(* Specifications: one per component, all other components at rest.        *)
(***************************************************************************)
AllIdle ==
    /\ DispInit /\ VarInit /\ MethIdle /\ lib = RestLib /\ ParIdle /\ func = RestFunc
    /\ LaterIdle

SpecDispatch == AllIdle /\ [][DispNext]_vars

SpecVariant == AllIdle /\ [][VarNext]_vars

\* lookups in libraries whose functions may fail to yield descriptor or name
InitLookup ==
    /\ DispInit /\ VarInit /\ MethIdle /\ ParIdle /\ func = RestFunc /\ LaterIdle
    /\ LibraryIs(SoundFuncs \cup FaultyFuncs, {TKIND_DISPATCH}, PlainImpls)

SpecLookup == InitLookup /\ [][MethNext]_vars

\* the lookup is a sequential program: it takes its next step whenever it has one
FairSpecLookup == SpecLookup /\ WF_vars(MethNext)

\* lookups in a coclass or dispatch record whose implemented types carry flags
InitEvent ==
    /\ DispInit /\ VarInit /\ MethIdle /\ ParIdle /\ func = RestFunc /\ LaterIdle
    /\ LibraryIs(SoundFuncs, {TKIND_COCLASS, TKIND_DISPATCH}, FlaggedImpls)

SpecEvent == InitEvent /\ [][MethNext]_vars

\* parameter inspection of one method with up to MaxParams parameters
InitParam ==
    /\ DispInit /\ VarInit /\ MethIdle /\ lib = RestLib /\ ParIdle /\ LaterIdle
    /\ \E ps \in SeqsUpTo(ParamNames, MaxParams), rhs \in BOOLEAN, dok \in BOOLEAN, nok \in BOOLEAN :
          func = Function(ps, rhs, dok, nok)

SpecParam == InitParam /\ [][ParNext]_vars

\* enumeration of a library of up to MaxRecords type records
InitTypes ==
    /\ DispInit /\ VarInit /\ MethIdle /\ lib = RestLib /\ ParIdle /\ func = RestFunc
    /\ EnumIdle /\ fc = NoFrame /\ LaterRest
    /\ members \in SeqsUpTo(RecordKinds, MaxRecords)

SpecTypes == InitTypes /\ [][TypesNext]_vars

\* enumeration of the variables of a record with up to MaxMembers variables
InitVars ==
    /\ DispInit /\ VarInit /\ MethIdle /\ lib = RestLib /\ ParIdle /\ func = RestFunc
    /\ EnumIdle /\ fc = NoFrame /\ LaterRest
    /\ members \in SeqsUpTo(VariableKinds, MaxMembers)

SpecVars == InitVars /\ [][VarsNext]_vars

\* the Methods iterator over a record with up to MaxMembers functions
InitMethods ==
    /\ DispInit /\ VarInit /\ MethIdle /\ lib = RestLib /\ ParIdle /\ func = RestFunc
    /\ EnumIdle /\ fc = NoFrame /\ LaterRest
    /\ members \in SeqsUpTo(FunctionKinds, MaxMembers)

SpecMethods == InitMethods /\ [][MethodsNext]_vars

\* find_coclass over a library whose record 1 is a coclass or not, with
\* up to MaxImpl implemented types
InitCoclass ==
    /\ DispInit /\ VarInit /\ MethIdle /\ ParIdle /\ func = RestFunc /\ LaterIdle
    /\ LibraryIs({}, {TKIND_COCLASS, TKIND_DISPATCH}, DefaultImpls)

SpecCoclass == InitCoclass /\ [][CoclassNext]_vars

\* type_to_string on the type descriptors nested up to MaxDepth
InitRender ==
    /\ DispInit /\ VarInit /\ MethIdle /\ lib = RestLib /\ ParIdle /\ func = RestFunc
    /\ EnumIdle /\ members = <<>> /\ fc = NoFrame
    /\ BesidesRender
    /\ RenderIdle
    /\ rdesc \in TypeDescs(MaxDepth)
    /\ rflags \in ParamFlagSets

SpecRender == InitRender /\ [][RenderNext]_vars

\* constructions and drops of up to MaxLibs OleTypeLibData values
SpecTypeLib == AllIdle /\ [][TypeLibNext]_vars

\* the implemented types of a coclass with up to MaxImpl table entries
InitImpl ==
    /\ DispInit /\ VarInit /\ MethIdle /\ ParIdle /\ func = RestFunc
    /\ EnumIdle /\ members = <<>> /\ fc = NoFrame
    /\ BesidesImpl
    /\ ImplIdle
    /\ unnamed \in SUBSET {2, 3}
    /\ LibraryIs({}, {TKIND_COCLASS}, AnyImpls)

SpecImpl == InitImpl /\ [][ImplNext]_vars

\* the method lists of an object whose type is record 1 of a library of
\* functions of every INVOKEKIND, record 1 with up to MaxOwn functions and
\* up to MaxImpl implemented types
InitOleMethods ==
    /\ DispInit /\ VarInit /\ MethIdle /\ ParIdle /\ func = RestFunc
    /\ EnumIdle /\ members = <<>> /\ fc = NoFrame
    /\ BesidesOle
    /\ OleIdle
    /\ ole = RestOle
    /\ \E f1 \in SeqsUpTo(KindFuncs, MaxOwn) :
         \E f2 \in {<<>>, <<KindFunc(INVOKE_PROPERTYGET, TRUE, TRUE)>>,
                     <<KindFunc(INVOKE_FUNC, FALSE, TRUE),
                       KindFunc(INVOKE_PROPERTYPUTREF, TRUE, TRUE)>>} :
           \E im \in SeqsUpTo(PlainImpls, MaxImpl) :
             lib = MkLib(TKIND_DISPATCH, f1, f2, <<KindFunc(INVOKE_FUNC, TRUE, TRUE)>>, im)

SpecOleMethods == InitOleMethods /\ [][OleNext]_vars

\* the method lists of every object, found in its library or not
InitLocate ==
    /\ DispInit /\ VarInit /\ MethIdle /\ ParIdle /\ func = RestFunc
    /\ EnumIdle /\ members = <<>> /\ fc = NoFrame
    /\ BesidesOle
    /\ OleIdle
    /\ ole \in Oles
    /\ \E f1 \in SeqsUpTo(KindFuncs, MaxOwn) :
         lib = MkLib(TKIND_DISPATCH, f1, <<>>, <<>>, <<>>)

SpecLocate == InitLocate /\ [][OleNext]_vars

\* threads that ask for COM up to MaxCalls times and end
InitCom ==
    /\ DispInit /\ VarInit /\ MethIdle /\ lib = RestLib /\ ParIdle /\ func = RestFunc
    /\ EnumIdle /\ members = <<>> /\ fc = NoFrame
    /\ BesidesCom
    /\ ComIdle
    /\ nano \in BOOLEAN

SpecCom == InitCom /\ [][ComNext]_vars

\* threads that go through the entry points and end
SpecEntry == InitCom /\ [][EntryNext]_vars

\* ole_type and ole_type_detail on the TYPEDESCs nested up to MaxDepth
InitVal ==
    /\ DispInit /\ VarInit /\ MethIdle /\ lib = RestLib /\ ParIdle /\ func = RestFunc
    /\ EnumIdle /\ members = <<>> /\ fc = NoFrame
    /\ BesidesVal
    /\ tform \in {"trait", "free"}
    /\ tself \in ValDescs(MaxDepth)
    /\ typedetails \in {NoDetails, [some |-> TRUE, items |-> <<>>]}
    /\ ValIdle

SpecVal == InitVal /\ [][ValNext]_vars

\* the rendering is a sequential program: it takes its next step whenever it has one
FairSpecVal == SpecVal /\ WF_vars(ValNext)

\* the wrappers of the functions that declare up to MaxWrapParams parameters
InitWrap ==
    /\ DispInit /\ VarInit /\ MethIdle /\ lib = RestLib /\ ParIdle /\ func = RestFunc
    /\ EnumIdle /\ members = <<>> /\ fc = NoFrame
    /\ BesidesWrap
    /\ \E invkind \in {INVOKE_FUNC, INVOKE_PROPERTYGET, INVOKE_PROPERTYPUT,
                        INVOKE_PROPERTYPUTREF},
          declared \in SeqsUpTo(WrapParams, MaxWrapParams), inherited \in BOOLEAN :
         wfunc = WrapFunction(invkind, declared, inherited)
    /\ WrapIdle

SpecWrap == InitWrap /\ [][WrapNext]_vars

\* visible() over the flag words of libraries, types and variables
InitVis ==
    /\ DispInit /\ VarInit /\ MethIdle /\ lib = RestLib /\ ParIdle /\ func = RestFunc
    /\ EnumIdle /\ members = <<>> /\ fc = NoFrame
    /\ BesidesVis
    /\ entity \in Entities
    /\ VisIdle

SpecVis == InitVis /\ [][VisNext]_vars

\* build over the libraries of up to MaxTypeInfos records
InitBuild ==
    /\ DispInit /\ VarInit /\ MethIdle /\ lib = RestLib /\ ParIdle /\ func = RestFunc
    /\ EnumIdle /\ members = <<>> /\ fc = NoFrame
    /\ BesidesBuild
    /\ BuildIdle
    /\ typelib \in SeqsUpTo(TypeRecords, MaxTypeInfos)

SpecBuild == InitBuild /\ [][BuildNext]_vars

(***************************************************************************)
(* Properties of the invoker.                                              *)
(***************************************************************************)
InvokeCalls == {k \in 1..Len(platform) : platform[k].fn = "Invoke"}
ResolveCalls == {k \in 1..Len(platform) : platform[k].fn = "GetIDsOfNames"}

\* C1: call(name, [a1..an]) hands Invoke an argument array holding exactly
\* the n values in reversed order [an..a1], with cArgs = n and cNamedArgs = 0,
\* for every n >= 0.
CallPassesArgsReversed ==
    op = "call" =>
        \A k \in InvokeCalls :
            LET d == platform[k].dp
                n == Len(args)
            IN /\ d.cArgs = n
               /\ Len(d.rgvarg) = n
               /\ d.cNamedArgs = 0
               /\ \A i \in 1..n : d.rgvarg[i] = args[n + 1 - i]

\* a call with three different arguments reached Invoke with [c, b, a]
CallReversedWitness ==
    /\ op = "call"
    /\ args = <<"a", "b", "c">>
    /\ \E k \in InvokeCalls : platform[k].dp.rgvarg = <<"c", "b", "a">>

\* C3: the status of Invoke is unpacked as: success -> the result VARIANT;
\* DISP_E_EXCEPTION -> Exception with the EXCEPINFO that Invoke filled;
\* DISP_E_TYPEMISMATCH / DISP_E_PARAMNOTFOUND -> IDispatchArgument with the
\* matching discriminator and the argument index Invoke wrote; any other
\* failing status -> Windows wrapping the status.  A failing status is never
\* reported as success.
InvokeOutcomeUnpacked ==
    (dpc \in {"unpacked", "returned"} /\ InvokeCalls # {}) =>
        /\ res >= 0 =>
              /\ ret.kind = "Ok"
              /\ (op = "put" /\ dpc = "returned") \/ ret.value = result
        /\ res = DISP_E_EXCEPTION => ret = [kind |-> "Exception", excep |-> excep]
        /\ res = DISP_E_TYPEMISMATCH =>
              ret = [kind |-> "IDispatchArgument", error_type |-> "TypeMismatch", arg_err |-> arg_err]
        /\ res = DISP_E_PARAMNOTFOUND =>
              ret = [kind |-> "IDispatchArgument", error_type |-> "ParameterNotFound", arg_err |-> arg_err]
        /\ (res < 0 /\ res \notin {DISP_E_EXCEPTION, DISP_E_TYPEMISMATCH, DISP_E_PARAMNOTFOUND}) =>
              ret = [kind |-> "Windows", code |-> res]
        /\ res < 0 => ret.kind # "Ok"

\* a call returned the parameter-not-found error for argument index 2
InvokeUnpackedWitness ==
    /\ dpc = "returned"
    /\ res = DISP_E_PARAMNOTFOUND
    /\ arg_err = 2
    /\ ret.kind = "IDispatchArgument"

\* C4: when GetIDsOfNames fails the call ends with that error: Invoke is not
\* issued and the lookup is not repeated; Invoke is only ever issued after a
\* successful GetIDsOfNames of the same call.
ResolveFailureIsTerminal ==
    /\ Cardinality(ResolveCalls) <= 1
    /\ \A k \in InvokeCalls :
          /\ k = 2
          /\ platform[1].fn = "GetIDsOfNames"
          /\ platform[1].hr >= 0
    /\ (ResolveCalls # {} /\ platform[1].hr < 0) =>
          /\ Len(platform) = 1
          /\ dpc = "returned"
          /\ ret = [kind |-> "Windows", code |-> platform[1].hr]

\* a call whose name lookup failed has returned without Invoke
ResolveFailureWitness ==
    /\ dpc = "returned"
    /\ Len(platform) = 1
    /\ platform[1].fn = "GetIDsOfNames"
    /\ platform[1].hr = DISP_E_UNKNOWNNAME
    /\ name = "Nope"

\* C5: put(name, value) invokes with kind property-put and an argument block
\* of cArgs = 1 holding the value, cNamedArgs = 1 and the one named-argument
\* ID DISPID_PROPERTYPUT; get(name) invokes with kind property-get and an
\* empty argument block.
PutGetArgumentBlock ==
    \A k \in InvokeCalls :
        LET c == platform[k] IN
        /\ op = "put" =>
              /\ c.flags = DISPATCH_PROPERTYPUT
              /\ c.dp.cArgs = 1
              /\ c.dp.rgvarg = <<args[1]>>
              /\ c.dp.cNamedArgs = 1
              /\ c.dp.rgdispidNamedArgs = <<DISPID_PROPERTYPUT>>
        /\ op = "get" =>
              /\ c.flags = DISPATCH_PROPERTYGET
              /\ c.dp.cArgs = 0
              /\ c.dp.cNamedArgs = 0
              /\ c.dp.rgvarg = <<>>
              /\ c.dp.rgdispidNamedArgs = <<>>

\* a put of value b reached Invoke
PutInvokedWitness ==
    /\ op = "put"
    /\ args = <<"b">>
    /\ InvokeCalls # {}
    /\ dpc = "returned"

(***************************************************************************)
(* Properties of VARIANT construction.                                     *)
(***************************************************************************)
\* the union member each tag designates (VARIANT of the platform's oaidl.h)
ActiveMember(vt) ==
    CASE vt = VT_I8 -> "llVal" [] vt = VT_I4 -> "lVal" [] vt = VT_UI1 -> "bVal"
      [] vt = VT_I2 -> "iVal" [] vt = VT_R4 -> "fltVal" [] vt = VT_R8 -> "dblVal"
      [] vt = VT_BOOL -> "boolVal" [] vt = VT_ERROR -> "scode" [] vt = VT_CY -> "cyVal"
      [] vt = VT_DATE -> "date" [] vt = VT_BSTR -> "bstrVal" [] vt = VT_UNKNOWN -> "punkVal"
      [] vt = VT_DISPATCH -> "pdispVal" [] vt = VT_ARRAY -> "parray"
      [] vt = VT_I1 -> "cVal" [] vt = VT_UI2 -> "uiVal" [] vt = VT_UI4 -> "ulVal"
      [] vt = VT_UI8 -> "ullVal" [] vt = VT_INT -> "intVal" [] vt = VT_UINT -> "uintVal"
      [] vt = VT_BYREF -> "byref"
      [] vt = VT_BYREF + VT_UI1 -> "pbVal" [] vt = VT_BYREF + VT_I2 -> "piVal"
      [] vt = VT_BYREF + VT_I4 -> "plVal" [] vt = VT_BYREF + VT_I8 -> "pllVal"
      [] vt = VT_BYREF + VT_R4 -> "pfltVal" [] vt = VT_BYREF + VT_R8 -> "pdblVal"
      [] vt = VT_BYREF + VT_BOOL -> "pboolVal" [] vt = VT_BYREF + VT_ERROR -> "pscode"
      [] vt = VT_BYREF + VT_CY -> "pcyVal" [] vt = VT_BYREF + VT_DATE -> "pdate"
      [] vt = VT_BYREF + VT_BSTR -> "pbstrVal" [] vt = VT_BYREF + VT_UNKNOWN -> "ppunkVal"
      [] vt = VT_BYREF + VT_DISPATCH -> "ppdispVal" [] vt = VT_BYREF + VT_ARRAY -> "pparray"
      [] vt = VT_BYREF + VT_VARIANT -> "pvarVal" [] vt = VT_BYREF + VT_DECIMAL -> "pdecVal"
      [] vt = VT_BYREF + VT_I1 -> "pcVal" [] vt = VT_BYREF + VT_UI2 -> "puiVal"
      [] vt = VT_BYREF + VT_UI4 -> "pulVal" [] vt = VT_BYREF + VT_UI8 -> "pullVal"
      [] vt = VT_BYREF + VT_INT -> "pintVal" [] vt = VT_BYREF + VT_UINT -> "puintVal"
      [] OTHER -> "none"

\* C2: every VariantFactory conversion produces a VARIANT whose tag designates
\* exactly the union member the conversion wrote.
TagMatchesActiveMember ==
    vpc = "built" => variant.field = ActiveMember(variant.vt)

(***************************************************************************)
(* Properties of method lookup and event detection.                        *)
(***************************************************************************)
\* the positions (from 1) of the functions of record r named qname
Matches(r) == {k \in 1..Len(lib[r].funcs) : lib[r].funcs[k].name = qname}
Lowest(S) == CHOOSE k \in S : \A j \in S : k <= j
FirstMatchIn(o, r) == [owner |-> o, typeinfo |-> r, name |-> qname, index |-> Lowest(Matches(r)) - 1]
\* the entries of the searched record's table that resolve to a record with a match
MatchingImpls == {j \in 1..Len(lib[TopRec].impls) :
                     lib[TopRec].impls[j].ref /\ Matches(lib[TopRec].impls[j].target) # {}}

\* C6: from_typeinfo(record, name) returns the lowest-index own function named
\* `name`; only if the record has none, the lowest-index match of the first
\* implemented type (in table order, one level deep) that has one; implemented
\* types of implemented types are never searched.
LookupReturnsFirstMatch ==
    (mpc = "done" /\ mret.kind = "Ok") =>
        mret.method =
            IF Matches(TopRec) # {} THEN FirstMatchIn(0, TopRec)
            ELSE IF MatchingImpls # {}
                 THEN FirstMatchIn(TopRec, lib[TopRec].impls[Lowest(MatchingImpls)].target)
                 ELSE NoMethod

\* C7: lookup by name runs to completion: from_typeinfo eventually returns a
\* method, none or an error, also when GetFuncDesc or GetDocumentation fails
\* for some function index.
LookupTerminates == <>(mpc = "done")

\* the implemented-type entries of the owner of method m that carry the source flag
SourceEntries(m) == {j \in 1..Len(lib[m.owner].impls) :
                        (lib[m.owner].impls[j].flags \div 2) % 2 = 1}

\* C10: a method of record R, where R is implemented with the source flag by
\* the coclass C that owns the method and R has a function of that name, is an
\* event; with the source flag on none of C's implemented-type entries it is
\* not; a method without owner, or whose owner is no coclass, is never an event.
EventCorrelation ==
    evt # "none" =>
        LET m == mret.method IN
        /\ (/\ m.owner # 0
            /\ lib[m.owner].typekind = TKIND_COCLASS
            /\ \E j \in SourceEntries(m) :
                  /\ lib[m.owner].impls[j].target = m.typeinfo
                  /\ \E k \in 1..Len(lib[m.typeinfo].funcs) :
                        lib[m.typeinfo].funcs[k].name = m.name)
           => evt = "yes"
        /\ (m.owner # 0 /\ SourceEntries(m) = {}) => evt = "no"
        /\ (m.owner = 0 \/ lib[m.owner].typekind # TKIND_COCLASS) => evt = "no"

\* a method found in a source interface of its owner coclass was reported an event
EventWitness ==
    /\ evt = "yes"
    /\ mret.method.owner = TopRec
    /\ lib[TopRec].typekind = TKIND_COCLASS
    /\ \E j \in SourceEntries(mret.method) :
          lib[TopRec].impls[j].target = mret.method.typeinfo

\* C11: a method is reported an event only if an implemented-type entry of
\* its owner coclass for the record that declares the method carries the
\* source flag; another source-flagged interface with a function of the same
\* name at the same index does not make it an event.
EventOnlyFromDeclaringRecord ==
    evt = "yes" =>
        \E j \in SourceEntries(mret.method) :
            lib[mret.method.owner].impls[j].target = mret.method.typeinfo

\* C14: the TYPEATTR block from_typeinfo acquires at entry is released
\* exactly once on every exit path: found among the record's own functions,
\* found in an implemented type, not found, or an error of the sub-search.
LookupReleasesTypeAttr ==
    /\ type_attr.outer \in {0, 1}
    /\ mpc = "done" => type_attr.outer = 0

(***************************************************************************)
(* Properties of parameter inspection.                                     *)
(***************************************************************************)
\* the platform's name list has an entry for the method and for every parameter
FullNameList == Len(func.names) = func.cParams + 1
Fetchable == func.descOk /\ func.namesOk

\* C8: params() of a method with N parameters, whose name list has N + 1
\* entries with the method's own name first, returns exactly N entries in
\* declaration order; entry k (from 0) has index k and the name of name-list
\* slot k + 1.  For N = 0 the list is empty.
ParamsReindexed ==
    (ppc = "done" /\ pop = "params" /\ Fetchable /\ FullNameList) =>
        /\ pret.kind = "Ok"
        /\ Len(pret.params) = func.cParams
        /\ \A k \in 0..(func.cParams - 1) :
              /\ pret.params[k + 1].index = k
              /\ pret.params[k + 1].name = func.names[k + 2]

\* params() returned the three parameters x, y, z of a method
ParamsWitness ==
    /\ ppc = "done"
    /\ pop = "params"
    /\ func.names = <<MethodName, "x", "y", "z">>
    /\ pret.kind = "Ok"
    /\ Len(pret.params) = 3

\* C9: OleParamData::new(method, n) discards name slot 0 and re-indexes from
\* 0: for a method with N parameters and 1 <= n <= N it yields the parameter
\* at position n - 1 with the name of the n-th declared parameter; for any
\* other n it returns an error.
ParamNewYieldsNth ==
    (ppc = "done" /\ pop = "new" /\ Fetchable /\ FullNameList) =>
        IF 1 <= pn /\ pn <= func.cParams
        THEN /\ pret.kind = "Ok"
             /\ pret.param.index = pn - 1
             /\ pret.param.name = func.names[pn + 1]
        ELSE pret.kind = "Err"

(***************************************************************************)
(* Properties of the enumerations.                                         *)
(***************************************************************************)
\* C12: ole_types() on a library with n type records returns exactly n
\* results in index order, one per record; a record whose type info or name
\* cannot be obtained is an Err at its index and is not dropped.
TypesKeepEveryRecord ==
    (eop = "ole_types" /\ epc = "done") =>
        /\ Len(produced) = Len(members)
        /\ \A k \in 1..Len(members) :
              /\ produced[k].index = k - 1
              /\ produced[k].kind = (IF members[k].name = "ok" /\ members[k].desc THEN "Ok" ELSE "Err")

\* C13: variables() yields one element per declared variable in declaration
\* order; a variable whose name or descriptor cannot be fetched is an error
\* at its position, and the list is neither aborted nor shortened (for a
\* record whose attributes could be fetched).
VariablesKeepEveryMember ==
    (eop = "variables" /\ epc = "done" /\ held # NoBlocks) =>
        /\ eret = "Ok"
        /\ Len(produced) = Len(members)
        /\ \A k \in 1..Len(members) :
              /\ produced[k].index = k - 1
              /\ (~members[k].desc \/ members[k].name = "err") => produced[k].kind = "Err"

\* the enumeration is over and every element it gave out was dropped
EnumQuiescent == epc = "done" /\ Alive(produced) = {}

\* C15: every VARDESC acquired while enumerating variables (variables() and
\* the Variables iterator) is released exactly once, by the enumeration or by
\* the dropped OleVariableData that owns it, also for members skipped or
\* failed and on an early return; so is the TYPEATTR acquired by variables().
VariableBlocksReleasedOnce ==
    eop \in {"variables", "Variables"} =>
        /\ \A b \in DOMAIN held : held[b].released <= 1
        /\ EnumQuiescent => \A b \in DOMAIN held : held[b].released = 1

\* C16: every FUNCDESC the Methods iterator acquires is released exactly
\* once, by the iterator when the name lookup fails and otherwise by the
\* yielded Method when it is destroyed; once the iterator and all yielded
\* Methods are dropped no descriptor is outstanding.
MethodBlocksReleasedOnce ==
    eop = "Methods" =>
        /\ \A b \in DOMAIN held : held[b].released <= 1
        /\ EnumQuiescent =>
              \A b \in DOMAIN held : held[b].what = "func" => held[b].released = 1

\* C17: the TLIBATTR block an OleTypeLibData acquires with GetLibAttr at
\* construction is released exactly once when that value is destroyed; after
\* any sequence of constructions and drops no block is outstanding.
LibAttrReleasedOnce ==
    eop = "typelib" =>
        /\ \A b \in DOMAIN held : held[b].released <= 1
        /\ Alive(produced) = {} => \A b \in DOMAIN held : held[b].released = 1

\* C18: find_coclass releases the attribute block of every record of the
\* library it examines exactly once, except the block it returns inside
\* ITypeInfoData, which is released exactly once when that value is dropped;
\* no block is released twice, returned after its release, or left unreleased.
CoclassBlocksReleasedOnce ==
    eop = "find_coclass" =>
        /\ ~fc.stale
        /\ \A b \in DOMAIN held : held[b].what = "attr" => held[b].released <= 1
        /\ EnumQuiescent =>
              \A b \in DOMAIN held : held[b].what = "attr" => held[b].released = 1

(***************************************************************************)
(* Properties of type_to_string.                                           *)
(***************************************************************************)
\* C19: a pointer descriptor renders as `*const T` when the flags have the
\* input flag set and the output flag clear, and as `*mut T` with both set,
\* output only, or neither, T being the rendering of the pointee under the
\* same flags; Pointer(Int32) is `*const i32` under {in}, `*mut i32` under {}.
PointerDirectionPolicy ==
    (rpc = "done" /\ rdesc.vt = VT_PTR) =>
        LET in == rflags % 2 = 1
            outf == (rflags \div 2) % 2 = 1
            T == type_to_string(rdesc.sub[1], rflags, TypeInfo, BuildResult(0, 0)).value
        IN /\ (in /\ ~outf) => rout = "*const " \o T
           /\ (in /\ outf) => rout = "*mut " \o T
           /\ (~in /\ outf) => rout = "*mut " \o T
           /\ (~in /\ ~outf) => rout = "*mut " \o T
           /\ (rdesc = Pointer(Plain(VT_I4)) /\ rflags = PARAMFLAG_FIN) => rout = "*const i32"
           /\ (rdesc = Pointer(Plain(VT_I4)) /\ rflags = 0) => rout = "*mut i32"

\* a pointer to Int32 was rendered under the input flag alone
PointerWitness ==
    /\ rpc = "done"
    /\ rdesc = Pointer(Plain(VT_I4))
    /\ rflags = PARAMFLAG_FIN
    /\ rout = "*const i32"

\* the element wrapped once per bound, the first bound outermost
RECURSIVE NestDimensions(_, _)
NestDimensions(type_name, bounds) ==
    IF bounds = <<>>
    THEN type_name
    ELSE "[" \o NestDimensions(type_name, Tail(bounds)) \o "; " \o ToString(Head(bounds)) \o "]"

\* C20: a fixed array renders as the element type wrapped once per declared
\* bound with the outermost dimension wrapped last, so the inner dimension is
\* the innermost wrapper: Int16 with bounds [3, 5] (outer 3, inner 5) is
\* `[[i16; 5]; 3]`.
ArrayOuterDimensionLast ==
    (rpc = "done" /\ rdesc.vt = VT_CARRAY) =>
        /\ rout = NestDimensions(type_to_string(rdesc.sub[1], rflags, TypeInfo,
                                                 BuildResult(0, 0)).value,
                                 rdesc.bounds)
        /\ rdesc = CArray(Plain(VT_I2), <<3, 5>>) => rout = "[[i16; 5]; 3]"

(***************************************************************************)
(* Properties of build.                                                    *)
(***************************************************************************)
\* the fields written whose TYPEDESC leads to a reference that resolves to
\* a library that cannot be loaded: the substitutions made
RECURSIVE Leaf(_)
Leaf(type_) == IF type_.sub = <<>> THEN type_ ELSE Leaf(type_.sub[1])
Substitutions ==
    {k \in DOMAIN written :
        /\ Leaf(written[k].typedesc).vt = VT_USERDEFINED
        /\ RefTable[Leaf(written[k].typedesc).hreftype].tag = "Err"
        /\ RefTable[Leaf(written[k].typedesc).hreftype].error = TYPE_E_CANTLOADLIBRARY}

\* C21: a user-defined reference whose target library cannot be loaded is
\* rendered as the literal __missing_type__ instead of failing, and each such
\* rendering adds exactly one to BuildResult.num_missing_types, so that when
\* build has returned the counter equals the number of substitutions made.
MissingTypesCounted ==
    /\ \A k \in DOMAIN written :
          written[k].typedesc = UserDefined(2) => written[k].type_string = "__missing_type__"
    /\ (bpc = "done" /\ bret = "Ok") =>
          build_result.num_missing_types = Cardinality(Substitutions)

\* C22: in build, failing to obtain a single type record never aborts the
\* enumeration: when the library was loaded and every record the platform
\* hands out converts and renders, build goes through all the records of the
\* library and returns Ok.
RecordFailureNeverAborts ==
    (bpc = "done"
        /\ bret \notin {"Err: LoadTypeLibEx", "Err: try_from", "Err: type_to_string"}) =>
        /\ bret = "Ok"
        /\ typeinfos = Len(typelib)

(***************************************************************************)
(* Properties of the implemented types.                                    *)
(***************************************************************************)
\* the flags set in a flag word
FlagBits(n) == {k \in 0..3 : (n \div (2 ^ k)) % 2 = 1}

\* the entries of the table of record 1 that resolve to a type: flags and
\* reference can be fetched and the record referred to converts
Resolvable ==
    {i \in DOMAIN lib[TopRec].impls :
        LET e == lib[TopRec].impls[i]
        IN e.flagsOk /\ e.ref /\ e.target \notin unnamed}

\* the entries of the table whose flags include every flag of the filter
Carrying(filter) ==
    {i \in DOMAIN lib[TopRec].impls :
        FlagBits(filter) \subseteq FlagBits(lib[TopRec].impls[i].flags)}

\* the table entries a list of types was made from
EntriesOf(list) == {list[k].entry : k \in DOMAIN list}

FilterOf(call) ==
    CASE call = "implemented_ole_types" -> 0
      [] call = "source_ole_types" -> IMPLTYPEFLAG_FSOURCE
      [] call = "default_ole_types" -> IMPLTYPEFLAG_FDEFAULT
      [] call = "default_event_sources" -> IMPLTYPEFLAG_FSOURCE + IMPLTYPEFLAG_FDEFAULT

\* C23: ole_type_impl_ole_types returns, in table order, exactly the
\* resolvable implemented types whose flags include every flag of the filter;
\* with the empty filter (implemented_ole_types) that is every resolvable
\* entry, and default_event_sources is the list of the entries that are both
\* in source_ole_types and in default_ole_types.
ImplTypesFiltered ==
    (icall # "none" /\ types.tag = "Ok") =>
        /\ EntriesOf(types.value) = Resolvable \cap Carrying(FilterOf(icall))
        /\ \A k \in DOMAIN types.value :
              /\ types.value[k].typeinfo = lib[TopRec].impls[types.value[k].entry].target
              /\ \A j \in DOMAIN types.value :
                    j < k => types.value[j].entry < types.value[k].entry
        /\ icall = "implemented_ole_types" => EntriesOf(types.value) = Resolvable
        /\ icall = "default_event_sources" =>
              LET source == ole_type_impl_ole_types(TopRec, IMPLTYPEFLAG_FSOURCE).value
                  default == ole_type_impl_ole_types(TopRec, IMPLTYPEFLAG_FDEFAULT).value
              IN types.value = SelectSeq(source, LAMBDA t : t.entry \in EntriesOf(default))

\* default_event_sources returned one of two source entries, the other
\* lacking the default flag
ImplTypesWitness ==
    /\ icall = "default_event_sources"
    /\ Len(types.value) = 1
    /\ Len(lib[TopRec].impls) = 2
    /\ Cardinality(Resolvable \cap Carrying(IMPLTYPEFLAG_FSOURCE)) = 2

(***************************************************************************)
(* Properties of the method lists.                                         *)
(***************************************************************************)
\* the record typeinfo_from_ole finds for the object
OleRecord == ret_type_info(ole.class_names, ole.type_, 1)

\* the functions of record t, in declaration order, on behalf of owner o
FunctionsOf(o, t) ==
    [i \in 1..Len(lib[t].funcs) |->
        [owner |-> o, typeinfo |-> t, index |-> i - 1, func |-> lib[t].funcs[i]]]

\* the functions of the implemented types of record t from table entry i on
RECURSIVE ImplementedFunctions(_, _)
ImplementedFunctions(t, i) ==
    IF i > Len(lib[t].impls)
    THEN <<>>
    ELSE (IF lib[t].impls[i].ref THEN FunctionsOf(t, lib[t].impls[i].target) ELSE <<>>)
             \o ImplementedFunctions(t, i + 1)

\* the functions of the object's record, then those of its implemented types
AllFunctions == FunctionsOf(0, OleRecord) \o ImplementedFunctions(OleRecord, 1)

KindBits(n) == {k \in 0..3 : (n \div (2 ^ k)) % 2 = 1}

\* the functions a mask selects: descriptor and name can be fetched and the
\* kind shares a bit with the mask
Selected(mask) ==
    SelectSeq(AllFunctions,
              LAMBDA x : x.func.desc /\ x.func.doc
                           /\ KindBits(x.func.invkind) \cap KindBits(mask) # {})

MaskOf(call) ==
    CASE call = "ole_methods" -> INVOKE_FUNC + INVOKE_PROPERTYGET + INVOKE_PROPERTYPUT
                                     + INVOKE_PROPERTYPUTREF
      [] call = "ole_get_methods" -> INVOKE_PROPERTYGET
      [] call = "ole_put_methods" -> INVOKE_PROPERTYPUT + INVOKE_PROPERTYPUTREF
      [] call = "ole_func_methods" -> INVOKE_FUNC

Occurrences(list, x) == Cardinality({k \in DOMAIN list : list[k] = x})

UnlocatedTypeIsTypedError ==
    (ocall # "none" /\ ole.type_info /\ ole.doc /\ ole.containing /\ OleRecord = 0) =>
        methods.tag = "Err"

(***************************************************************************)
(* Properties of the COM initialization.                                   *)
(***************************************************************************)
Initializations(t) == {k \in DOMAIN com[t] : com[t][k] \in {"OleInitialize", "CoInitializeEx"}}
Uninitializations(t) ==
    {k \in DOMAIN com[t] : com[t][k] \in {"OleUninitialize", "CoUninitialize"}}

\* C25: the COM initialization of a thread is lazy and idempotent: the
\* platform initialization runs exactly once, at the first call of
\* ole_initialized on the thread; the uninitialization runs exactly once, at
\* the destruction of the thread-local value and never before; a thread that
\* never calls ole_initialized neither initializes nor uninitializes.
ComInitializedOncePerThread ==
    \A t \in Threads :
      /\ Cardinality(Initializations(t)) = IF asked[t] > 0 THEN 1 ELSE 0
      /\ asked[t] > 0 => com[t][1] \in {"OleInitialize", "CoInitializeEx"}
      /\ Cardinality(Uninitializations(t)) = IF tls[t] = "destroyed" THEN 1 ELSE 0
      /\ thread[t] = "running" => Uninitializations(t) = {}
      /\ (thread[t] = "exited" /\ asked[t] > 0 /\ Len(com[t]) > 1) =>
            Uninitializations(t) = {Len(com[t])}
      /\ asked[t] = 0 => com[t] = <<>>

\* a thread asked for COM more than once and ended, the other never asked
ComWitness ==
    /\ asked["worker"] > 1
    /\ thread["worker"] = "exited"
    /\ Len(com["worker"]) = 2
    /\ asked["main"] = 0
    /\ thread["main"] = "exited"

\* C26: every entry point that loads a type library or activates an object
\* has COM initialized on the calling thread before its first platform COM
\* call (LoadTypeLibEx, CoCreateInstance, CLSIDFromProgID).
ComInitializedBeforeUse ==
    \A t \in Threads :
      \A k \in DOMAIN com[t] :
        com[t][k] \in {"LoadTypeLibEx", "CoCreateInstance", "CLSIDFromProgID"} =>
            \E j \in Initializations(t) : j < k

(***************************************************************************)
(* Properties of ole_typedesc2val.                                         *)
(***************************************************************************)
\* C28: rendering the type of a parameter or variable (ole_typedesc2val with
\* ole_ptrtype2val) terminates for every finite type-descriptor tree,
\* pointers to pointers and safe arrays included.
TypedescRenderingTerminates == <>(tpc = "done")

(***************************************************************************)
(* Properties of the late-bound wrappers.                                  *)
(***************************************************************************)
\* C29: in every wrapper written for a function of a dispinterface, cArgs
\* equals the number of elements of the emitted args array (the parameters
\* that are no return value, in reverse declaration order), and args is
\* named as rgvarg only when the array is emitted, functions with a
\* [retval] parameter included.
\* Stated for the functions all of whose parameters could be read.
AllRead(f) == \A k \in 1..Len(f.params) : f.params[k].ok

WrapperDispParamsConsistent ==
    (wpc = "done" /\ wrapper.tag = "Ok" /\ AllRead(wfunc)) =>
        /\ wrapper.cArgs = Len(wrapper.elements)
        /\ (wrapper.rgvarg = "args.as_mut_ptr()" => wrapper.declares_args)

(***************************************************************************)
(* Properties of visible().                                                *)
(***************************************************************************)
\* whether the word carries the bit
Carries(word, bit) == (word \div bit) % 2 = 1

\* C30: visibility is consistent across entities: OleTypeLibData::visible()
\* returns false whenever the flags of the library include hidden or
\* restricted, just as OleTypeData::visible() and OleVariableData::visible()
\* return true only when none of the hidden, restricted (and, for variables,
\* non-browsable) flags is set.
VisibleOnlyWithoutHidingFlags ==
    (vispc = "done" /\ entity.attr /\ vret) =>
        CASE entity.kind = "typelib" ->
                 /\ ~Carries(entity.flags, LIBFLAG_FHIDDEN)
                 /\ ~Carries(entity.flags, LIBFLAG_FRESTRICTED)
          [] entity.kind = "type" ->
                 /\ ~Carries(entity.flags, TYPEFLAG_FHIDDEN)
                 /\ ~Carries(entity.flags, TYPEFLAG_FRESTRICTED)
          [] entity.kind = "variable" ->
                 /\ ~Carries(entity.flags, VARFLAG_FHIDDEN)
                 /\ ~Carries(entity.flags, VARFLAG_FRESTRICTED)
                 /\ ~Carries(entity.flags, VARFLAG_FNONBROWSABLE)

====
